---- MODULE Spec2Model ----
(***************************************************************************)
(* Model of the comment / content heuristic-analysis pipeline of the       *)
(* charizard repository: the rule-based classifiers of                      *)
(* EnhancedYouTubeService (src/src/services/youtube_service.py), of         *)
(* YouTubeCommentAnalyzer (src/src/app.py, src/src/main.py), of             *)
(* analytics_api.py, of AnalyticsAgent and of youtube_analytics.py, and     *)
(* the aggregators built on them.                                           *)
(* Further the engagement metrics, the comment insights, the              *)
(* recommendation lists and the video comparison computed from the         *)
(* statistics of videos, and three operations that run in steps:           *)
(* AnalyticsAgent.get_with_timeout (a caller and a worker thread),         *)
(* EnhancedYouTubeService.execute_with_retry (the key-rotation loop) and   *)
(* OrchestratorAgent.process (the workflow of the three agents).           *)
(* Further the JSON answers of AIService, the two analysis endpoints       *)
(* (POST /api/analyze of app.py, POST /analyze of analytics_api.py) and    *)
(* the paging loop of get_comments.                                         *)
(*                                                                          *)
(* Python strings are TLA+ strings; `kw in text`, str.lower() and the       *)
(* regular expressions are computed character by character.  A code point  *)
(* outside ASCII is written {n} with n its decimal number (an emoji is one  *)
(* such unit; it holds no letter, so lower() leaves it alone).              *)
(*                                                                          *)
(* The VADER scorer (sia.polarity_scores) is a library outside the          *)
(* repository: the compound score of a text is an input, an integer in      *)
(* units of 0.0001 (VADER rounds the compound to four decimals).            *)
(***************************************************************************)
EXTENDS Integers, Sequences, FiniteSets, TLC

VARIABLES
    input,        \* the argument of the call: [isStr, s] for a single-text
                  \* classifier, a record of arguments for the other functions
    score,        \* compound score the scorer gives for input.s
    scoreLower,   \* compound score the scorer gives for input.s.lower()
    comments,     \* the raw comments handed to an aggregator
    sponsorIn,    \* [title, description, transcript] of detect_sponsorships
    op,           \* the operation that ran last ("none" after construction)
    ret,          \* its result, a record
    scorerCalls,  \* how often that operation consulted the scorer
    pc,           \* the position of each thread of a call that runs in steps
    mem           \* the fields and locals those steps read and write

vars == <<input, score, scoreLower, comments, sponsorIn, op, ret, scorerCalls, pc, mem>>

(***************************************************************************)
(* Bounds.                                                                  *)
(***************************************************************************)
MaxWords == 2       \* fragments per generated text
MaxComments == 2    \* comments per aggregated list

(***************************************************************************)
(* Python string primitives.                                                *)
(***************************************************************************)
Char(s, i) == SubSeq(s, i, i)

UpperLetters == "ABCDEFGHIJKLMNOPQRSTUVWXYZ"
LowerLetters == "abcdefghijklmnopqrstuvwxyz"
Digits == "0123456789"

IndexIn(alphabet, c) ==
    IF \E i \in 1..Len(alphabet) : Char(alphabet, i) = c
    THEN CHOOSE i \in 1..Len(alphabet) : Char(alphabet, i) = c
    ELSE 0

IsUpper(c) == IndexIn(UpperLetters, c) > 0
IsLowerLetter(c) == IndexIn(LowerLetters, c) > 0
IsDigit(c) == IndexIn(Digits, c) > 0
IsSpace(c) == c \in {" ", "\t", "\n", "\r"}
\* \w of the re module
IsWordChar(c) == IsUpper(c) \/ IsLowerLetter(c) \/ IsDigit(c) \/ c = "_"

LowerChar(c) == IF IsUpper(c) THEN Char(LowerLetters, IndexIn(UpperLetters, c)) ELSE c
UpperChar(c) == IF IsLowerLetter(c) THEN Char(UpperLetters, IndexIn(LowerLetters, c)) ELSE c

\* text[i:i+len(k)] == k
StartsAt(t, i, k) == i >= 1 /\ i + Len(k) - 1 <= Len(t) /\ SubSeq(t, i, i + Len(k) - 1) = k

\* k in t
Contains(t, k) == \E i \in 1..(Len(t) - Len(k) + 1) : StartsAt(t, i, k)

\* t.find(k) + 1: the first position of k in t, 0 if there is none
Find(t, k) ==
    IF Contains(t, k)
    THEN CHOOSE i \in 1..Len(t) :
             StartsAt(t, i, k) /\ \A j \in 1..(i - 1) : ~StartsAt(t, j, k)
    ELSE 0

\* str.lower() of a text of ASCII characters, each character on its own (the
\* text is lowered half by half)
RECURSIVE LowerAscii(_)
LowerAscii(s) ==
    IF Len(s) = 0 THEN ""
    ELSE IF Len(s) = 1 THEN LowerChar(s)
    ELSE LET h == Len(s) \div 2
         IN LowerAscii(SubSeq(s, 1, h)) \o LowerAscii(SubSeq(s, h + 1, Len(s)))

\* str.lower(); U+0178, written {376}, is an upper-case letter whose lower
\* case is U+00FF
RECURSIVE Lower(_)
Lower(s) ==
    LET i == Find(s, "{376}")
    IN IF i = 0 THEN LowerAscii(s)
       ELSE LowerAscii(SubSeq(s, 1, i - 1)) \o "{255}" \o Lower(SubSeq(s, i + 5, Len(s)))

\* str.upper()
RECURSIVE Upper(_)
Upper(s) ==
    IF Len(s) = 0 THEN ""
    ELSE IF Len(s) = 1 THEN UpperChar(s)
    ELSE LET h == Len(s) \div 2
         IN Upper(SubSeq(s, 1, h)) \o Upper(SubSeq(s, h + 1, Len(s)))

\* any(kw in t for kw in kws)
ContainsAny(t, kws) == \E k \in kws : Contains(t, k)

\* t.strip() == ''
IsBlank(t) == \A i \in 1..Len(t) : IsSpace(Char(t, i))

\* \b at the gap before position i (1 <= i <= Len(t) + 1)
WordBoundary(t, i) ==
    LET before == i > 1 /\ IsWordChar(Char(t, i - 1))
        after == i <= Len(t) /\ IsWordChar(Char(t, i))
    IN before # after

\* re.search(r'\b(w1|w2|...)\b', t)
SearchWord(t, ws) ==
    \E w \in ws : \E i \in 1..(Len(t) - Len(w) + 1) :
        StartsAt(t, i, w) /\ WordBoundary(t, i) /\ WordBoundary(t, i + Len(w))

\* re.search(r'\?$', t): $ matches at the end and before a final newline
EndsWithQuestionMark(t) ==
    \/ Len(t) >= 1 /\ Char(t, Len(t)) = "?"
    \/ Len(t) >= 2 /\ Char(t, Len(t)) = "\n" /\ Char(t, Len(t) - 1) = "?"

\* re.search(r'\b[A-Z]{2,}\b', t)
SearchCapsWord(t) ==
    \E i \in 1..Len(t) : \E j \in (i + 1)..Len(t) :
        /\ \A k \in i..j : IsUpper(Char(t, k))
        /\ WordBoundary(t, i)
        /\ WordBoundary(t, j + 1)

(***************************************************************************)
(* Python numbers.  A number is the exact rational it stands for, [n, d]   *)
(* in lowest terms with d > 0; the counts of the model give quotients      *)
(* whose rounding ties are exact binary fractions, for which round(x, k)   *)
(* rounds the tie to the even digit.  ZeroDivisionError is the outcome of  *)
(* a true division by zero.                                                 *)
(***************************************************************************)
Least(S) == CHOOSE x \in S : \A y \in S : x <= y
Greatest(S) == CHOOSE x \in S : \A y \in S : x >= y

Max(a, b) == IF a >= b THEN a ELSE b

RECURSIVE GCD(_, _)
GCD(a, b) == IF b = 0 THEN a ELSE GCD(b, a % b)

Rat(n, d) == LET g == GCD(n, d) IN [n |-> n \div g, d |-> d \div g]

Zero == [n |-> 0, d |-> 1]

ZeroDivisionError == [n |-> 1, d |-> 0]

TrueDiv(a, b) == IF b = 0 THEN ZeroDivisionError ELSE Rat(a, b)

Times100(q) == IF q = ZeroDivisionError THEN q ELSE Rat(q.n * 100, q.d)

\* round(q, k) with scale = 10^k
Round(q, scale) ==
    IF q = ZeroDivisionError THEN q
    ELSE LET h == q.n * scale
             lo == h \div q.d
             r == h % q.d
             up == IF 2 * r > q.d THEN 1
                   ELSE IF 2 * r < q.d THEN 0
                   ELSE lo % 2
         IN Rat(lo + up, scale)

round2(q) == Round(q, 100)

(***************************************************************************)
(* Python values handed to a classifier: a str, or something else (None,   *)
(* a number).                                                               *)
(***************************************************************************)
Str(s) == [isStr |-> TRUE, s |-> s]
NotAStr == [isStr |-> FALSE, s |-> ""]

(***************************************************************************)
(* EnhancedYouTubeService: keyword configuration (__init__).                *)
(***************************************************************************)
negative_context_keywords ==
    {"clickbait", "waste of time", "fake", "scam", "slow", "unwatchable",
     "ads", "noise", "laggy", "again", "great job", "thanks a lot",
     "as always", "fell off", "boring", "skip", "trash", "garbage"}

sarcasm_indicators ==
    {"sure", "totally", "wow", "thanks a lot", "great job", "genius",
     "lmao", "lol", "yeah right", "can't wait", "so helpful", "this aged well",
     "obviously", "clearly", "of course", "naturally"}

\* U+1F644 U+1F612 U+1F921 U+1F602 U+1F923 U+1F611 U+1F60F U+1F624
emoji_indicators ==
    {"{128580}", "{128530}", "{129313}", "{128514}", "{129315}", "{128529}",
     "{128527}", "{128548}"}

(***************************************************************************)
(* EnhancedYouTubeService.classify_sentiment.  c is the compound score the  *)
(* scorer returns for the text; calls is how often the scorer is asked.     *)
(***************************************************************************)
\* a variant with the strict comparisons > 0.05 and < -0.05, against which
\* the thresholds of C5 are tested
classify_sentiment_strict(v, c) ==
    IF ~v.isStr \/ IsBlank(v.s)
    THEN [val |-> "neutral", calls |-> 0]
    ELSE [val |-> IF c > 500 THEN "positive"
                  ELSE IF c < -500 THEN "negative"
                  ELSE "neutral",
          calls |-> 1]

\* the function as written
classify_sentiment(v, c) ==
    IF ~v.isStr \/ IsBlank(v.s)
    THEN [val |-> "neutral", calls |-> 0]
    ELSE [val |-> IF c >= 500 THEN "positive"
                  ELSE IF c <= -500 THEN "negative"
                  ELSE "neutral",
          calls |-> 1]

(***************************************************************************)
(* EnhancedYouTubeService.detect_sarcasm.  cl is the compound score of      *)
(* comment.lower().                                                         *)
(***************************************************************************)
contains_neg_context(comment) == ContainsAny(Lower(comment), negative_context_keywords)
contains_sarcasm_clue(comment) == ContainsAny(Lower(comment), sarcasm_indicators)
contains_emoji(comment) == ContainsAny(Lower(comment), emoji_indicators)
has_caps_exaggeration(comment) == SearchCapsWord(comment)
has_quotes(comment) == Contains(comment, "\"") \/ Contains(comment, "'")

B2N(b) == IF b THEN 1 ELSE 0

sarcasm_score(comment, cl) ==
    LET neg == contains_neg_context(comment)
        clue == contains_sarcasm_clue(comment)
        emoji == contains_emoji(comment)
    IN 2 * B2N(neg) + 2 * B2N(clue) + B2N(emoji)
       + B2N(has_caps_exaggeration(comment)) + B2N(has_quotes(comment))
       + 2 * B2N(cl > 4000 /\ (neg \/ clue))
       + 2 * B2N(cl < 4000 /\ (clue \/ emoji) /\ neg)

\* a variant that needs a score above 3, against which the cut-off of C7 is
\* tested
detect_sarcasm_gt3(v, cl) ==
    IF ~v.isStr THEN "not sarcastic"
    ELSE IF sarcasm_score(v.s, cl) > 3 THEN "sarcastic" ELSE "not sarcastic"

\* the function as written
detect_sarcasm(v, cl) ==
    IF ~v.isStr THEN "not sarcastic"
    ELSE IF sarcasm_score(v.s, cl) >= 3 THEN "sarcastic" ELSE "not sarcastic"

(***************************************************************************)
(* YouTubeCommentAnalyzer.detect_sarcasm.  src/src/app.py and               *)
(* src/src/main.py hold the same code and the same keyword lists; only the  *)
(* emoji lists differ: main.py lists six emoji, app.py lists the same six   *)
(* as mis-decoded text (U+00F0 U+0178 ...).                                 *)
(***************************************************************************)
Analyzer_negative_context_keywords ==
    {"clickbait", "waste of time", "fake", "scam", "slow", "unwatchable",
     "ads", "noise", "laggy", "again", "great job", "thanks a lot",
     "as always", "fell off"}

Analyzer_sarcasm_indicators ==
    {"sure", "totally", "wow", "thanks a lot", "great job", "genius",
     "lmao", "lol", "yeah right", "can't wait", "so helpful", "this aged well"}

Main_emoji_indicators ==
    {"{128580}", "{128530}", "{129313}", "{128514}", "{129315}", "{128529}"}

App_emoji_indicators ==
    {"{240}{376}{8482}{8222}", "{240}{376}{732}{8217}", "{240}{376}{164}{161}",
     "{240}{376}{732}{8218}", "{240}{376}{164}{163}", "{240}{376}{732}{8216}"}

Analyzer_verdict(v, cl, emojis) ==
    IF ~v.isStr THEN "not sarcastic"
    ELSE
      LET text == Lower(v.s)
          neg == ContainsAny(text, Analyzer_negative_context_keywords)
          clue == ContainsAny(text, Analyzer_sarcasm_indicators)
          emoji == ContainsAny(text, emojis)
          caps == SearchCapsWord(v.s)
      IN IF cl > 4000 /\ (neg \/ clue \/ emoji \/ caps) THEN "sarcastic"
         ELSE IF cl < 4000 /\ (clue \/ emoji) /\ neg THEN "sarcastic"
         ELSE "not sarcastic"

App_detect_sarcasm(v, cl) == Analyzer_verdict(v, cl, App_emoji_indicators)
Main_detect_sarcasm(v, cl) == Analyzer_verdict(v, cl, Main_emoji_indicators)

(***************************************************************************)
(* EnhancedYouTubeService.is_question and categorize_comment.               *)
(***************************************************************************)
question_words ==
    {"how", "what", "when", "where", "why", "who", "which", "whose", "whom"}
question_requests == {"can you", "could you", "would you", "will you"}
question_verbs == {"do you", "does it", "is it", "are you"}

is_question(v) ==
    IF ~v.isStr THEN FALSE
    ELSE LET text_lower == Lower(v.s)
         IN \/ EndsWithQuestionMark(text_lower)
            \/ SearchWord(text_lower, question_words)
            \/ SearchWord(text_lower, question_requests)
            \/ SearchWord(text_lower, question_verbs)

appreciation_words ==
    {"great", "awesome", "love", "amazing", "perfect", "excellent", "fantastic",
     "brilliant"}
criticism_words ==
    {"bad", "terrible", "awful", "hate", "dislike", "worst", "garbage", "trash",
     "boring"}
suggestion_words ==
    {"should", "could", "would", "suggest", "recommend", "maybe", "perhaps",
     "consider"}
feedback_words == {"feedback", "review", "thought", "opinion", "think", "feel"}
spam_indicators == {"subscribe", "like", "comment", "check out my channel", "follow me"}

categorize_comment(v) ==
    IF ~v.isStr THEN "other"
    ELSE LET text_lower == Lower(v.s)
         IN IF is_question(v) THEN "question"
            ELSE IF ContainsAny(text_lower, appreciation_words) THEN "appreciation"
            ELSE IF ContainsAny(text_lower, criticism_words) THEN "criticism"
            ELSE IF ContainsAny(text_lower, suggestion_words) THEN "suggestion"
            ELSE IF ContainsAny(text_lower, feedback_words) THEN "feedback"
            ELSE IF ContainsAny(text_lower, spam_indicators) THEN "spam"
            ELSE "other"

(***************************************************************************)
(* analytics_api.categorize_question and categorize_comments.               *)
(***************************************************************************)
categorize_question(text) ==
    LET text_lower == Lower(text)
    IN IF ContainsAny(text_lower, {"how to", "how do", "how can", "how would"}) THEN "how_to"
       ELSE IF ContainsAny(text_lower, {"what is", "what are", "what does", "what do"})
            THEN "what_is"
       ELSE IF ContainsAny(text_lower, {"when will", "when does", "when do", "when is"})
            THEN "when_will"
       ELSE IF ContainsAny(text_lower, {"why", "why is", "why does", "why do"}) THEN "why"
       ELSE IF ContainsAny(text_lower, {"where", "where is", "where are", "where can"})
            THEN "where"
       ELSE "general"

Api_appreciation_words == appreciation_words \cup {"wonderful", "outstanding"}
Api_criticism_words == criticism_words \cup {"disappointing"}
Api_suggestion_words == suggestion_words \cup {"try"}
Api_feedback_words == feedback_words \cup {"experience"}
Api_spam_words == spam_indicators \cup {"watch my video", "click here", "free"}
\* the three emoji of the list are stored mis-decoded (U+00F0 U+0178 ...)
Api_humor_words ==
    {"lol", "haha", "funny", "joke", "hilarious", "comedy",
     "{240}{376}{732}{8218}", "{240}{376}{164}{163}", "{240}{376}{732}{8222}"}
Api_technical_words ==
    {"how", "what", "when", "where", "why", "setup", "config", "install", "error",
     "problem", "solution"}
Api_personal_words ==
    {"i", "me", "my", "myself", "personal", "experience", "story", "life"}

\* the histogram keys of categorize_comments
Api_categories ==
    {"appreciation", "criticism", "questions", "suggestions", "feedback", "spam",
     "humor", "technical", "personal", "other"}
Api_question_types == {"how_to", "what_is", "when_will", "why", "where", "general"}

\* a variant of the chain that tests for '?' first, against which the
\* precedence of C2 is tested
comment_category_question_first(text) ==
    IF Contains(text, "?") THEN "questions"
    ELSE IF ContainsAny(text, Api_appreciation_words) THEN "appreciation"
    ELSE IF ContainsAny(text, Api_criticism_words) THEN "criticism"
    ELSE IF ContainsAny(text, Api_suggestion_words) THEN "suggestions"
    ELSE IF ContainsAny(text, Api_feedback_words) THEN "feedback"
    ELSE IF ContainsAny(text, Api_spam_words) THEN "spam"
    ELSE IF ContainsAny(text, Api_humor_words) THEN "humor"
    ELSE IF ContainsAny(text, Api_technical_words) THEN "technical"
    ELSE IF ContainsAny(text, Api_personal_words) THEN "personal"
    ELSE "other"

\* the if / elif chain of the loop body; text is already lower-cased
comment_category(text) ==
    IF ContainsAny(text, Api_appreciation_words) THEN "appreciation"
    ELSE IF ContainsAny(text, Api_criticism_words) THEN "criticism"
    ELSE IF Contains(text, "?") THEN "questions"
    ELSE IF ContainsAny(text, Api_suggestion_words) THEN "suggestions"
    ELSE IF ContainsAny(text, Api_feedback_words) THEN "feedback"
    ELSE IF ContainsAny(text, Api_spam_words) THEN "spam"
    ELSE IF ContainsAny(text, Api_humor_words) THEN "humor"
    ELSE IF ContainsAny(text, Api_technical_words) THEN "technical"
    ELSE IF ContainsAny(text, Api_personal_words) THEN "personal"
    ELSE "other"

\* a comment of the list with the fields the loop adds ("-" for a key that
\* is not set)
Categorized(c) ==
    LET text == Lower(c.text.s)
        category == comment_category(text)
    IN [text |-> c.text, likes |-> c.likes, category |-> category,
        question_type |-> IF category = "questions" THEN categorize_question(text)
                          ELSE "-"]

\* how many entries of a list of truth values are true
CountWhere(flags) == Cardinality({i \in 1..Len(flags) : flags[i]})

\* a variant that leaves the comments without a match uncounted, against
\* which the sums of C1 are tested
categorize_comments_skip_other(cs) ==
    IF \E i \in 1..Len(cs) : ~cs[i].text.isStr
    THEN [val |-> "raised"]
    ELSE LET categorized == [i \in 1..Len(cs) |-> Categorized(cs[i])]
         IN [val |-> "ok",
             categories |->
                 [k \in Api_categories |->
                     IF k = "other" THEN 0
                     ELSE CountWhere([n \in 1..Len(categorized) |-> categorized[n].category = k])],
             question_types |->
                 [k \in Api_question_types |->
                     CountWhere([n \in 1..Len(categorized) |-> categorized[n].question_type = k])],
             categorized_comments |-> categorized]

\* comment.get("text", "").lower() raises AttributeError when the text is
\* not a str
categorize_comments(cs) ==
    IF \E i \in 1..Len(cs) : ~cs[i].text.isStr
    THEN [val |-> "raised"]
    ELSE LET categorized == [i \in 1..Len(cs) |-> Categorized(cs[i])]
         IN [val |-> "ok",
             categories |->
                 [k \in Api_categories |->
                     CountWhere([n \in 1..Len(categorized) |-> categorized[n].category = k])],
             question_types |->
                 [k \in Api_question_types |->
                     CountWhere([n \in 1..Len(categorized) |-> categorized[n].question_type = k])],
             categorized_comments |-> categorized]

(***************************************************************************)
(* EnhancedYouTubeService.is_english.  det is the answer of                 *)
(* langid.classify: the language, the confidence in tenths, or a failure.   *)
(***************************************************************************)
\* the characters of a text: a unit {n} is one character, not an ASCII one
RECURSIVE CharCount(_, _)
CharCount(s, asciiOnly) ==
    IF s = "" THEN 0
    ELSE IF Char(s, 1) = "{" /\ \E j \in 2..Len(s) : Char(s, j) = "}"
         THEN LET j == CHOOSE k \in 2..Len(s) :
                          Char(s, k) = "}" /\ \A m \in 2..(k - 1) : Char(s, m) # "}"
              IN (IF asciiOnly THEN 0 ELSE 1) + CharCount(SubSeq(s, j + 1, Len(s)), asciiOnly)
         ELSE 1 + CharCount(SubSeq(s, 2, Len(s)), asciiOnly)

\* len([c for c in text if ord(c) < 128]) / len(text) > tenths / 10
AsciiRatioAbove(text, tenths) ==
    10 * CharCount(text, TRUE) > tenths * CharCount(text, FALSE)

is_english(v, det) ==
    IF ~v.isStr \/ IsBlank(v.s) THEN FALSE
    ELSE IF det.fails THEN AsciiRatioAbove(v.s, 8)
    ELSE \/ det.lang = "en" /\ det.conf > 5
         \/ det.lang = "en" /\ AsciiRatioAbove(v.s, 7)

(***************************************************************************)
(* A comment as the API hands it over, with the answers the outside         *)
(* services give for its text: compound and compoundLower (the scorer on    *)
(* the text and on text.lower()), det (langid), llm (the answer to the      *)
(* sentiment prompt of analytics_api, NotAStr when the call fails) and      *)
(* ai_category (the category AIService.categorize_comment returns).         *)
(***************************************************************************)
RawComment(v, c, cl, det, answer, aicat, likes) ==
    [text |-> v, compound |-> c, compoundLower |-> cl, det |-> det,
     llm |-> answer, ai_category |-> aicat, likes |-> likes]

Det(lang, conf) == [lang |-> lang, conf |-> conf, fails |-> FALSE]

(***************************************************************************)
(* EnhancedYouTubeService.get_comments: the record built for a comment.     *)
(***************************************************************************)
comment_info(c) ==
    [comment |-> c.text.s,
     likes |-> c.likes,
     sentiment |-> classify_sentiment(c.text, c.compound).val,
     sarcasm |-> detect_sarcasm(c.text, c.compoundLower),
     is_question |-> is_question(c.text),
     category |-> categorize_comment(c.text),
     is_english |-> is_english(c.text, c.det)]

get_comments(cs) == [i \in 1..Len(cs) |-> comment_info(cs[i])]

\* d[k] = d.get(k, 0) + 1 over a list: the keys are the values that occur
Distribution(keys) ==
    [k \in {keys[i] : i \in 1..Len(keys)} |->
        Cardinality({i \in 1..Len(keys) : keys[i] = k})]

RECURSIVE SumOver(_, _)
SumOver(f, keys) ==
    IF keys = {} THEN 0
    ELSE LET k == CHOOSE x \in keys : TRUE
         IN f[k] + SumOver(f, keys \ {k})

SumOf(f) == SumOver(f, DOMAIN f)

(***************************************************************************)
(* EnhancedYouTubeService.get_video_analytics (the comment analysis).       *)
(***************************************************************************)
get_video_analytics(found, cs) ==
    IF ~found THEN [val |-> "empty"]
    ELSE LET analysed == get_comments(cs)
         IN [val |-> "ok",
             total_comments |-> Len(analysed),
             english_comments |-> CountWhere([n \in 1..Len(analysed) |-> analysed[n].is_english]),
             question_count |-> CountWhere([n \in 1..Len(analysed) |-> analysed[n].is_question]),
             sentiment_distribution |-> Distribution([n \in 1..Len(analysed) |-> analysed[n].sentiment]),
             category_distribution |-> Distribution([n \in 1..Len(analysed) |-> analysed[n].category]),
             comments |-> analysed]

(***************************************************************************)
(* AnalyticsAgent.comment_analytics.                                        *)
(***************************************************************************)
SentimentKeys == {"positive", "negative", "neutral"}

comment_analytics(cs) ==
    LET analysed == get_comments(cs)
    IN IF Len(analysed) = 0 THEN [val |-> "error", error |-> "No comments found"]
       ELSE [val |-> "ok",
             total_comments |-> Len(analysed),
             sentiment_breakdown |->
                 [k \in SentimentKeys |->
                     CountWhere([n \in 1..Len(analysed) |-> analysed[n].sentiment = k])],
             comments |-> SubSeq(analysed, 1, IF Len(analysed) < 20 THEN Len(analysed) ELSE 20)]

(***************************************************************************)
(* AnalyticsAgent.analyze_comments, on the records of get_comments.         *)
(***************************************************************************)
vader_bucket(c) ==
    IF c > 500 THEN "positive" ELSE IF c < -500 THEN "negative" ELSE "neutral"

analyze_comments(cs) ==
    IF Len(cs) = 0 THEN [val |-> "error", error |-> "No comments found or invalid comment data"]
    ELSE [val |-> "ok",
          total_comments |-> Len(cs),
          sentiment_breakdown |->
              [k \in SentimentKeys |->
                  CountWhere([n \in 1..Len(cs) |-> vader_bucket(cs[n].compound) = k])],
          categories |-> Distribution([n \in 1..Len(cs) |-> cs[n].ai_category]),
          total_likes |-> SumOver([i \in 1..Len(cs) |-> cs[i].likes], 1..Len(cs))]

(***************************************************************************)
(* youtube_analytics.analyze_video (the sentiment counts it saves).         *)
(***************************************************************************)
analyze_video(found, cs) ==
    IF ~found THEN [val |-> "not found"]
    ELSE IF Len(cs) = 0
    THEN [val |-> "ok", positive |-> 0, negative |-> 0, neutral |-> 0, total |-> 0]
    ELSE [val |-> "ok",
          positive |-> CountWhere([n \in 1..Len(cs) |-> cs[n].compound > 500]),
          negative |-> CountWhere([n \in 1..Len(cs) |-> ~(cs[n].compound > 500) /\ cs[n].compound < -500]),
          neutral |-> CountWhere([n \in 1..Len(cs) |-> ~(cs[n].compound > 500) /\ ~(cs[n].compound < -500)]),
          total |-> Len(cs)]

(***************************************************************************)
(* analytics_api: analyze_sentiment_simple, is_spam_comment,                *)
(* analyze_comment_overview and get_comprehensive_comments.  For            *)
(* analyze_sentiment_simple, answer is the LLM's text, NotAStr when the     *)
(* call raises.                                                             *)
(***************************************************************************)
analyze_sentiment_simple(answer) ==
    IF ~answer.isStr THEN "NEUTRAL"
    ELSE LET result == Upper(answer.s)
         IN IF Contains(result, "POSITIVE") THEN "POSITIVE"
            ELSE IF Contains(result, "NEGATIVE") THEN "NEGATIVE"
            ELSE "NEUTRAL"

is_spam_comment(text) == ContainsAny(Lower(text), Api_spam_words)

\* the keys of the two dicts of categorize_comments, in insertion order
Api_category_order ==
    <<"appreciation", "criticism", "questions", "suggestions", "feedback", "spam",
      "humor", "technical", "personal", "other">>
Api_question_type_order == <<"how_to", "what_is", "when_will", "why", "where", "general">>

\* max(d.items(), key=lambda x: x[1]): the first item, in the order of the
\* keys, whose value is the largest
MaxItem(order, d) ==
    LET m == Greatest({d[order[i]] : i \in 1..Len(order)})
        first == Least({i \in 1..Len(order) : d[order[i]] = m})
    IN <<order[first], m>>

\* a variant that calls an average of exactly 10 high and of exactly 2 low,
\* against which the strict thresholds of C15 are tested
generate_comment_insights_inclusive(categorization, avg_likes, total_comments) ==
    LET categories == categorization.categories
        dominant_category == MaxItem(Api_category_order, categories)
    IN (IF dominant_category[2] * 10 > total_comments * 3
        THEN <<"Comments are predominantly " \o dominant_category[1] \o " ("
                 \o ToString(dominant_category[2]) \o " comments)">>
        ELSE <<>>)
       \o (IF avg_likes.n >= 10 * avg_likes.d
           THEN <<"High engagement: Comments receive many likes on average">>
           ELSE IF avg_likes.n <= 2 * avg_likes.d
           THEN <<"Low engagement: Comments receive few likes on average">>
           ELSE <<>>)

\* generate_comment_insights.  x > total_comments * 0.3 is 10 x > 3
\* total_comments and x > total_comments * 0.1 is 10 x > total_comments (the
\* float products are exact where the exact product is an integer).
generate_comment_insights(categorization, avg_likes, total_comments) ==
    LET categories == categorization.categories
        question_types == categorization.question_types
        dominant_category == MaxItem(Api_category_order, categories)
        total_questions == question_types["how_to"] + question_types["what_is"]
                           + question_types["when_will"] + question_types["why"]
                           + question_types["where"] + question_types["general"]
        most_common_question == MaxItem(Api_question_type_order, question_types)
    IN (IF dominant_category[2] * 10 > total_comments * 3
        THEN <<"Comments are predominantly " \o dominant_category[1] \o " ("
                 \o ToString(dominant_category[2]) \o " comments)">>
        ELSE <<>>)
       \o (IF total_questions > 0
           THEN <<"Most common question type: " \o most_common_question[1] \o " ("
                    \o ToString(most_common_question[2]) \o " questions)">>
           ELSE <<>>)
       \o (IF avg_likes.n > 10 * avg_likes.d
           THEN <<"High engagement: Comments receive many likes on average">>
           ELSE IF avg_likes.n < 2 * avg_likes.d
           THEN <<"Low engagement: Comments receive few likes on average">>
           ELSE <<>>)
       \o (IF categories["spam"] * 10 > total_comments
           THEN <<"High spam content: " \o ToString(categories["spam"])
                    \o " spam comments detected">>
           ELSE <<>>)
       \o (IF categories["appreciation"] > categories["criticism"] * 2
           THEN <<"Very positive community: Appreciation comments significantly outnumber criticism">>
           ELSE IF categories["criticism"] > categories["appreciation"]
           THEN <<"Critical community: Criticism comments outnumber appreciation">>
           ELSE <<>>)

\* sorted(comments, key=lambda x: x.get("likes", 0), reverse=True): a stable
\* sort, comments with equal likes keep the order they arrived in
RECURSIVE sorted_by_likes(_)
sorted_by_likes(cs) ==
    IF Len(cs) = 0 THEN <<>>
    ELSE LET m == Greatest({cs[i].likes : i \in 1..Len(cs)})
             first == Least({i \in 1..Len(cs) : cs[i].likes = m})
         IN <<cs[first]>>
            \o sorted_by_likes(SubSeq(cs, 1, first - 1) \o SubSeq(cs, first + 1, Len(cs)))

analyze_comment_overview(cs) ==
    IF Len(cs) = 0
    THEN [val |-> "ok", total_comments |-> 0, categories |-> <<>>, question_types |-> <<>>]
    ELSE LET categorization == categorize_comments(cs)
             total_likes == SumOf([i \in 1..Len(cs) |-> cs[i].likes])
             avg_likes == TrueDiv(total_likes, Len(cs))
             sorted_comments == sorted_by_likes(categorization.categorized_comments)
             top_comments == SubSeq(sorted_comments, 1, Least({5, Len(sorted_comments)}))
             insights == generate_comment_insights(categorization, avg_likes, Len(cs))
         IN [val |-> "ok",
             total_comments |-> Len(cs),
             categories |-> categorization.categories,
             question_types |-> categorization.question_types,
             engagement_metrics |->
                 [total_likes |-> total_likes,
                  average_likes_per_comment |-> Round(avg_likes, 10),
                  most_liked_comment |-> top_comments[1]],
             top_comments |-> top_comments,
             insights |-> insights,
             categorized_comments |->
                 SubSeq(categorization.categorized_comments, 1,
                        Least({20, Len(categorization.categorized_comments)}))]

get_comprehensive_comments(cs) ==
    IF Len(cs) = 0 THEN [val |-> "ok", total_comments |-> 0, comments |-> <<>>]
    ELSE LET sentiments == [i \in 1..Len(cs) |-> analyze_sentiment_simple(cs[i].llm)]
             listed == [i \in 1..Len(cs) |->
                          [text |-> cs[i].text, likes |-> cs[i].likes,
                           sentiment |-> sentiments[i],
                           is_question |-> Contains(cs[i].text.s, "?"),
                           is_spam |-> is_spam_comment(cs[i].text.s)]]
         IN [val |-> "ok",
             total_comments |-> Len(listed),
             positive_count |-> CountWhere([n \in 1..Len(sentiments) |-> sentiments[n] = "POSITIVE"]),
             negative_count |-> CountWhere([n \in 1..Len(sentiments) |-> sentiments[n] # "POSITIVE" /\ sentiments[n] = "NEGATIVE"]),
             neutral_count |-> CountWhere([n \in 1..Len(sentiments) |-> sentiments[n] \notin {"POSITIVE", "NEGATIVE"}]),
             question_count |-> CountWhere([n \in 1..Len(listed) |-> listed[n].is_question]),
             spam_count |-> CountWhere([n \in 1..Len(listed) |-> listed[n].is_spam]),
             comments |-> listed,
             comment_overview |-> analyze_comment_overview(listed)]

(***************************************************************************)
(* The regular expressions of the sponsorship detector, matched the way    *)
(* the re module matches them: a pattern is a sequence of tokens, tried     *)
(* left to right with backtracking in the order of preference (a greedy     *)
(* repetition tries the longest run first, a lazy one the shortest, an      *)
(* alternation its branches in order).  Every pattern of the detector is    *)
(* compiled with re.IGNORECASE or applied to lower-cased text: the letter   *)
(* classes ignore case, and the literals, all written in lower case, are    *)
(* looked up in the lower-cased text (lower() keeps every position).        *)
(***************************************************************************)
Tok(k, str, cls, min, max, lazy, alts) ==
    [k |-> k, s |-> str, cls |-> cls, min |-> min, max |-> max, lazy |-> lazy,
     alts |-> alts]

Lit(str) == Tok("lit", str, "", 0, 0, FALSE, <<>>)
\* cls{min,max}, greedy or lazy; max = -1 is no upper limit
Rep(cls, min, max, lazy) == Tok("rep", "", cls, min, max, lazy, <<>>)
Alt(alts) == Tok("alt", "", "", 0, 0, FALSE, alts)
GroupOpen == Tok("open", "", "", 0, 0, FALSE, <<>>)
GroupClose == Tok("close", "", "", 0, 0, FALSE, <<>>)
EndOfString == Tok("eos", "", "", 0, 0, FALSE, <<>>)

Ws == Rep("space", 1, -1, FALSE)          \* \s+
AnyLazy == Rep("any", 0, -1, TRUE)        \* .*?

IsLetter(c) == IsUpper(c) \/ IsLowerLetter(c)

InClass(c, cls) ==
    CASE cls = "space" -> IsSpace(c)                        \* \s
      [] cls = "any" -> c # "\n"                            \* .
      [] cls = "alnum" -> IsLetter(c) \/ IsDigit(c)         \* [A-Z0-9], ignoring case
      [] cls = "alpha" -> IsLetter(c)                       \* [A-Z], ignoring case
      [] cls = "company" -> IsLetter(c) \/ IsSpace(c) \/ c = "&"   \* [a-zA-Z\s&]
      [] cls = "notdot" -> c # "."                          \* [^.]
      [] cls = "nonspace" -> ~IsSpace(c)                    \* [^\s]


\* the number of characters from position i on that are in the class: the
\* run ends at the first character outside it
Run(t, i, cls) ==
    LET stops == {j \in i..Len(t) : ~InClass(Char(t, j), cls)}
    IN IF stops = {} THEN Len(t) + 1 - i ELSE Least(stops) - i

NoMatch == [ok |-> FALSE, end |-> 0, cap |-> <<0, 0>>]

\* Match(pat, t, i, cap): the preferred match of pat at position i of the
\* lower-cased text t: the position after it, and the bounds of the
\* capturing group
RECURSIVE Match(_, _, _, _)
RECURSIVE TryCounts(_, _, _, _, _, _, _)
RECURSIVE TryAlts(_, _, _, _, _)

Match(pat, t, i, cap) ==
    IF pat = <<>> THEN [ok |-> TRUE, end |-> i, cap |-> cap]
    ELSE LET tok == Head(pat)
             rest == Tail(pat)
         IN CASE tok.k = "lit" ->
                   IF StartsAt(t, i, tok.s)
                   THEN Match(rest, t, i + Len(tok.s), cap)
                   ELSE NoMatch
              [] tok.k = "open" -> Match(rest, t, i, <<i, cap[2]>>)
              [] tok.k = "close" -> Match(rest, t, i, <<cap[1], i>>)
              [] tok.k = "eos" ->
                   IF i = Len(t) + 1 \/ (i = Len(t) /\ Char(t, i) = "\n")
                   THEN Match(rest, t, i, cap)
                   ELSE NoMatch
              [] tok.k = "rep" ->
                   LET run == Run(t, i, tok.cls)
                       most == IF tok.max >= 0 /\ tok.max < run THEN tok.max ELSE run
                   IN IF most < tok.min THEN NoMatch
                      ELSE TryCounts(rest, t, i, cap, tok.min, most, tok.lazy)
              [] tok.k = "alt" -> TryAlts(tok.alts, rest, t, i, cap)

\* the repetition takes the first count of characters with which the rest
\* of the pattern matches: the counts are tried from least up when the
\* repetition is lazy, from most down when it is greedy
TryCounts(rest, t, i, cap, least, most, lazy) ==
    LET good == {n \in least..most : Match(rest, t, i + n, cap).ok}
    IN IF good = {} THEN NoMatch
       ELSE Match(rest, t, i + (IF lazy THEN Least(good) ELSE Greatest(good)), cap)

TryAlts(alts, rest, t, i, cap) ==
    IF alts = <<>> THEN NoMatch
    ELSE LET r == Match(Head(alts) \o rest, t, i, cap)
         IN IF r.ok THEN r ELSE TryAlts(Tail(alts), rest, t, i, cap)

\* re.findall(pat, t): the matches from left to right, without overlap; of
\* each the text of the capturing group if the pattern has one, else all
\* starts: the positions at which the pattern matches; the scan goes on
\* from position i, takes the first of them and resumes after that match
RECURSIVE FindAllFrom(_, _, _, _, _)
FindAllFrom(pat, t, lowered, starts, i) ==
    LET ahead == {j \in starts : j >= i}
    IN IF ahead = {} THEN <<>>
       ELSE LET s == Least(ahead)
                r == Match(pat, lowered, s, <<0, 0>>)
            IN <<IF r.cap[1] > 0 THEN SubSeq(t, r.cap[1], r.cap[2] - 1)
                 ELSE SubSeq(t, s, r.end - 1)>>
               \o FindAllFrom(pat, t, lowered, starts, IF r.end > s THEN r.end ELSE s + 1)

FindAllLowered(pat, t, lowered) ==
    FindAllFrom(pat, t, lowered,
                {i \in 1..Len(t) : Match(pat, lowered, i, <<0, 0>>).ok}, 1)

\* words separated by \s+; "*" stands for .*? and "#" for [A-Z0-9]+
RECURSIVE Phrase(_)
Phrase(words) ==
    LET w == Head(words)
        tok == IF w = "*" THEN AnyLazy
               ELSE IF w = "#" THEN Rep("alnum", 1, -1, FALSE)
               ELSE Lit(w)
    IN IF Len(words) = 1 THEN <<tok>> ELSE <<tok, Ws>> \o Phrase(Tail(words))

\* str.strip()
RECURSIVE Strip(_)
Strip(t) ==
    IF t = "" THEN ""
    ELSE IF IsSpace(Char(t, 1)) THEN Strip(SubSeq(t, 2, Len(t)))
    ELSE IF IsSpace(Char(t, Len(t))) THEN Strip(SubSeq(t, 1, Len(t) - 1))
    ELSE t

\* the matches of several patterns, in the order of the patterns
RECURSIVE FindAllOfEachLowered(_, _, _)
FindAllOfEachLowered(pats, t, lowered) ==
    IF pats = <<>> THEN <<>>
    ELSE FindAllLowered(Head(pats), t, lowered)
         \o FindAllOfEachLowered(Tail(pats), t, lowered)

\* re.findall(pat, t, re.IGNORECASE)
FindAll(pat, t) == FindAllLowered(pat, t, Lower(t))
FindAllOfEach(pats, t) == FindAllOfEachLowered(pats, t, Lower(t))

Range(seq) == {seq[i] : i \in 1..Len(seq)}

(***************************************************************************)
(* EnhancedYouTubeService.detect_sponsorships and extract_sponsorship_text. *)
(***************************************************************************)
sponsorship_indicators ==
    <<Phrase(<<"sponsored", "by">>),
      Phrase(<<"this", "video", "is", "sponsored", "by">>),
      Phrase(<<"thanks", "to", "*", "for", "sponsoring">>),
      Phrase(<<"partnered", "with">>),
      Phrase(<<"in", "partnership", "with">>),
      Phrase(<<"promotion", "code">>),
      Phrase(<<"discount", "code">>),
      Phrase(<<"use", "code", "#">>),
      Phrase(<<"promo", "code">>),
      Phrase(<<"coupon", "code">>),
      Phrase(<<"check", "out", "*", "link", "in", "description">>),
      Phrase(<<"link", "in", "description">>),
      Phrase(<<"click", "the", "link", "below">>),
      Phrase(<<"visit", "*", "com">>),
      Phrase(<<"go", "to", "*", "com">>),
      Phrase(<<"head", "over", "to">>),
      Phrase(<<"check", "out", "*", "website">>),
      Phrase(<<"visit", "*", "website">>),
      Phrase(<<"go", "to", "*", "website">>)>>

sponsorship_companies ==
    {"nordvpn", "expressvpn", "surfshark", "protonvpn", "cyberghost",
     "skillshare", "masterclass", "udemy", "coursera", "brilliant",
     "audible", "spotify", "amazon", "shopify", "squarespace",
     "wix", "bluehost", "hostinger", "godaddy", "namecheap",
     "grammarly", "honey", "raid", "mobile legends", "genshin impact",
     "raycon", "airpods", "samsung", "apple", "google",
     "microsoft", "adobe", "canva", "figma", "notion",
     "robinhood", "coinbase", "binance", "stripe", "paypal",
     "uber", "lyft", "doordash", "ubereats", "grubhub",
     "netflix", "disney+", "hulu", "hbo max", "paramount+",
     "nike", "adidas", "puma", "under armour", "reebok",
     "coca cola", "pepsi", "red bull", "monster", "gatorade",
     "mcdonalds", "burger king", "kfc", "subway", "dominos",
     "starbucks", "dunkin", "tim hortons", "peets", "caribou"}

\* trigger\s+?([A-Z][a-zA-Z\s&]+?)(?:\s+word|\.|,|$); sep is the separator
\* between the trigger and the group, word the word of the first ending
CompanyPattern(triggers, sep, word) ==
    <<Alt([i \in 1..Len(triggers) |-> <<Lit(triggers[i])>>])>> \o sep \o
    <<GroupOpen, Rep("alpha", 1, 1, FALSE), Rep("company", 1, -1, TRUE), GroupClose,
      Alt(<< <<Ws, Lit(word)>>, <<Lit(".")>>, <<Lit(",")>>, <<EndOfString>> >>)>>

company_patterns ==
    <<CompanyPattern(<<"sponsored by", "partnered with", "thanks to">>, <<Ws>>, "for"),
      CompanyPattern(<<"check out">>, <<Lit(" ")>>, "at"),
      CompanyPattern(<<"visit">>, <<Lit(" ")>>, "com"),
      CompanyPattern(<<"go to">>, <<Lit(" ")>>, "com"),
      CompanyPattern(<<"head over to">>, <<Lit(" ")>>, "com")>>

\* (?:use|promo|discount|coupon)\s+code\s+([A-Z0-9]+)
discount_code_pattern ==
    <<Alt(<< <<Lit("use")>>, <<Lit("promo")>>, <<Lit("discount")>>, <<Lit("coupon")>> >>),
      Ws, Lit("code"), Ws, GroupOpen, Rep("alnum", 1, -1, FALSE), GroupClose>>

\* https?://[^\s]+
url_pattern ==
    <<Lit("http"), Alt(<< <<Lit("s")>>, <<>> >>), Lit("://"), Rep("nonspace", 1, -1, FALSE)>>

\* [^.]*(?:phrase|...)[^.]*\.
SegmentPattern(phrases) ==
    <<Rep("notdot", 0, -1, FALSE),
      Alt([i \in 1..Len(phrases) |-> <<Lit(phrases[i])>>]),
      Rep("notdot", 0, -1, FALSE), Lit(".")>>

segment_patterns ==
    <<SegmentPattern(<<"sponsored by", "partnered with", "thanks to">>),
      SegmentPattern(<<"check out", "visit", "go to", "head over to">>),
      SegmentPattern(<<"use code", "promo code", "discount code">>),
      SegmentPattern(<<"link in description", "click the link">>)>>

\* f"{title} {description} {transcript}"
FullText(in) == in.title \o " " \o in.description \o " " \o in.transcript

extract_sponsorship_text(in) == Range(FindAllOfEach(segment_patterns, FullText(in)))

\* a variant that adds the weight of a kind for each of its matches, against
\* which the upper limit of C10 is tested
confidence_score_per_match(indicators, companies, extracted, codes, urls) ==
    30 * Len(indicators) + 25 * Cardinality(companies) + 20 * Len(extracted)
    + 15 * Len(codes) + 10 * Len(urls)

\* the weight of a kind is added once when its list is not empty
confidence_score(indicators, companies, extracted, codes, urls) ==
    (IF indicators # <<>> THEN 30 ELSE 0)
    + (IF companies # {} THEN 25 ELSE 0)
    + (IF extracted # <<>> THEN 20 ELSE 0)
    + (IF codes # <<>> THEN 15 ELSE 0)
    + (IF urls # <<>> THEN 10 ELSE 0)

\* a variant whose lowest level starts above 20, against which the
\* thresholds of C9 are tested
sponsorship_level_low_above_20(confidence) ==
    IF confidence >= 70 THEN "high"
    ELSE IF confidence >= 40 THEN "medium"
    ELSE IF confidence > 20 THEN "low"
    ELSE "none"

\* the if / elif chain as written
sponsorship_level(confidence) ==
    IF confidence >= 70 THEN "high"
    ELSE IF confidence >= 40 THEN "medium"
    ELSE IF confidence >= 20 THEN "low"
    ELSE "none"

\* the result returned when the try block raises
default_sponsorship ==
    [has_sponsorship |-> FALSE, sponsorship_level |-> "none", confidence_score |-> 0,
     detected_indicators |-> {}, detected_companies |-> {}, extracted_companies |-> {},
     discount_codes |-> {}, urls |-> {}, sponsorship_text |-> {},
     indicator_matches |-> 0]

\* indicator_matches is len(detected_indicators) before list(set(...))
detect_sponsorships(in, raised) ==
    IF raised THEN default_sponsorship
    ELSE LET full_text == Lower(FullText(in))
             detected_indicators == FindAllOfEach(sponsorship_indicators, full_text)
             detected_companies == {c \in sponsorship_companies : Contains(full_text, Lower(c))}
             found == FindAllOfEach(company_patterns, full_text)
             extracted_companies == [i \in 1..Len(found) |-> Strip(found[i])]
             discount_codes == FindAll(discount_code_pattern, full_text)
             urls == FindAll(url_pattern, full_text)
             confidence == confidence_score(detected_indicators, detected_companies,
                                            extracted_companies, discount_codes, urls)
         IN [has_sponsorship |-> confidence >= 20,
             sponsorship_level |-> sponsorship_level(confidence),
             confidence_score |-> confidence,
             detected_indicators |-> Range(detected_indicators),
             detected_companies |-> detected_companies,
             extracted_companies |-> Range(extracted_companies),
             discount_codes |-> Range(discount_codes),
             urls |-> Range(urls),
             sponsorship_text |-> extract_sponsorship_text(in),
             indicator_matches |-> Len(detected_indicators)]

(***************************************************************************)
(* Inputs.  A text is up to MaxWords fragments joined by single spaces.     *)
(***************************************************************************)
RECURSIVE Join(_)
Join(w) ==
    IF Len(w) = 0 THEN ""
    ELSE IF Len(w) = 1 THEN w[1]
    ELSE w[1] \o " " \o Join(Tail(w))

TextsOf(frags) == {Join(w) : w \in UNION {[1..n -> frags] : n \in 0..MaxWords}}

\* compound scores around the cut-offs 0.05, -0.05 and 0.4
Compounds == {-500, -499, 0, 499, 500, 4000, 4001}

\* the scorer gives 0.0 for a text without tokens
ScoresFor(t) == IF IsBlank(t) THEN {0} ELSE Compounds

NoSponsorIn == [title |-> "", description |-> "", transcript |-> ""]
\* a call modelled as one step has no thread positions and no locals
NoSteps == pc = <<>> /\ mem = <<>>

NoRet == [val |-> "none"]

\* one fragment per sarcasm signal, and one without any
ClassifyFragments == {"wow", "scam", "{128580}", "BEST", "'ok'", "great job", "nice"}

ClassifyInputs ==
    {NotAStr, Str(" "), Str(" \t\n")} \cup {Str(t) : t \in TextsOf(ClassifyFragments)}

InitClassify ==
    /\ input \in ClassifyInputs
    /\ score \in ScoresFor(input.s)
    /\ scoreLower \in (IF Lower(input.s) = input.s THEN {score} ELSE ScoresFor(input.s))
    /\ comments = <<>>
    /\ sponsorIn = NoSponsorIn
    /\ op = "none"
    /\ ret = NoRet
    /\ scorerCalls = 0
    /\ NoSteps

InputsUnchanged == UNCHANGED <<input, score, scoreLower, comments, sponsorIn, pc, mem>>

ClassifySentiment ==
    LET r == classify_sentiment(input, score)
    IN /\ op = "none"
       /\ op' = "classify_sentiment"
       /\ ret' = [val |-> r.val]
       /\ scorerCalls' = r.calls
       /\ InputsUnchanged

DetectSarcasm ==
    /\ op = "none"
    /\ op' = "detect_sarcasm"
    /\ ret' = [val |-> detect_sarcasm(input, scoreLower)]
    /\ scorerCalls' = B2N(input.isStr)
    /\ InputsUnchanged

AppDetectSarcasm ==
    /\ op = "none"
    /\ op' = "App.detect_sarcasm"
    /\ ret' = [val |-> App_detect_sarcasm(input, scoreLower)]
    /\ scorerCalls' = B2N(input.isStr)
    /\ InputsUnchanged

MainDetectSarcasm ==
    /\ op = "none"
    /\ op' = "Main.detect_sarcasm"
    /\ ret' = [val |-> Main_detect_sarcasm(input, scoreLower)]
    /\ scorerCalls' = B2N(input.isStr)
    /\ InputsUnchanged

NextClassify ==
    \/ ClassifySentiment
    \/ DetectSarcasm
    \/ AppDetectSarcasm
    \/ MainDetectSarcasm

SpecClassify == InitClassify /\ [][NextClassify]_vars

(***************************************************************************)
(* C5: classify_sentiment returns one of positive / negative / neutral;     *)
(* positive iff the compound score is >= 0.05, negative iff it is <= -0.05, *)
(* neutral otherwise; for an empty, whitespace-only or non-string input it  *)
(* returns neutral without consulting the scorer.                           *)
(***************************************************************************)
C5_SentimentThresholds ==
    op = "classify_sentiment" =>
        /\ ret.val \in {"positive", "negative", "neutral"}
        /\ (~input.isStr \/ IsBlank(input.s)) => (ret.val = "neutral" /\ scorerCalls = 0)
        /\ (input.isStr /\ ~IsBlank(input.s)) =>
              /\ ret.val = "positive" <=> score >= 500
              /\ ret.val = "negative" <=> score <= -500
              /\ ret.val = "neutral" <=> (score > -500 /\ score < 500)

C5_Witness ==
    /\ op = "classify_sentiment"
    /\ input.isStr /\ ~IsBlank(input.s)
    /\ score = 500
    /\ ret.val = "positive"

(***************************************************************************)
(* The rule of the specification (4.3): sarcastic iff the weighted sum of   *)
(* the signals is >= 3, or compound > 0.4 and a negative-context or         *)
(* sarcasm-indicator keyword is present.                                    *)
(***************************************************************************)
WeightedSum(neg, clue, emoji, caps, quotes) ==
    2 * B2N(neg) + 2 * B2N(clue) + B2N(emoji) + B2N(caps) + B2N(quotes)

SpecifiedSarcastic(neg, clue, emoji, caps, quotes, c) ==
    \/ WeightedSum(neg, clue, emoji, caps, quotes) >= 3
    \/ c > 4000 /\ (neg \/ clue)

(***************************************************************************)
(* C7: EnhancedYouTubeService.detect_sarcasm returns 'sarcastic' exactly    *)
(* when the specified rule says so, for every combination of the five       *)
(* signals and every compound value (the two score bonuses of the code      *)
(* change no verdict); a text with both a negative-context keyword and a    *)
(* sarcasm-indicator keyword is sarcastic at any compound score.            *)
(***************************************************************************)
C7_ServiceSarcasmRule ==
    (op = "detect_sarcasm" /\ input.isStr) =>
        LET neg == contains_neg_context(input.s)
            clue == contains_sarcasm_clue(input.s)
        IN /\ ret.val = "sarcastic" <=>
                 SpecifiedSarcastic(neg, clue, contains_emoji(input.s),
                                    has_caps_exaggeration(input.s),
                                    has_quotes(input.s), scoreLower)
           /\ (neg /\ clue) => ret.val = "sarcastic"

\* the compound clause decides: one keyword (sum 2) and compound > 0.4
C7_Witness ==
    /\ op = "detect_sarcasm"
    /\ input.isStr
    /\ contains_sarcasm_clue(input.s)
    /\ WeightedSum(contains_neg_context(input.s), contains_sarcasm_clue(input.s),
                   contains_emoji(input.s), has_caps_exaggeration(input.s),
                   has_quotes(input.s)) = 2
    /\ scoreLower > 4000
    /\ ret.val = "sarcastic"

(***************************************************************************)
(* C8: YouTubeCommentAnalyzer.detect_sarcasm gives the verdict of the       *)
(* specified rule for every combination of signals.                         *)
(***************************************************************************)
C8_AnalyzerSarcasmRule ==
    (op \in {"App.detect_sarcasm", "Main.detect_sarcasm"} /\ input.isStr) =>
        LET text == Lower(input.s)
            emojis == IF op = "App.detect_sarcasm" THEN App_emoji_indicators
                      ELSE Main_emoji_indicators
        IN ret.val = "sarcastic" <=>
              SpecifiedSarcastic(ContainsAny(text, Analyzer_negative_context_keywords),
                                 ContainsAny(text, Analyzer_sarcasm_indicators),
                                 ContainsAny(text, emojis),
                                 SearchCapsWord(input.s),
                                 has_quotes(input.s), scoreLower)

(***************************************************************************)
(* The categorizers on single texts.                                        *)
(***************************************************************************)
\* one fragment per rule of the two cascades ("badge" holds "bad", "opinion"
\* holds "i", "Love" needs lower())
CategoryFragments ==
    {"great", "badge", "?", "should", "opinion", "free", "lol", "how to", "my",
     "ok", "is it", "Love"}

CategoryInputs == {NotAStr} \cup {Str(t) : t \in TextsOf(CategoryFragments)}

InitCategory ==
    /\ input \in CategoryInputs
    /\ score = 0
    /\ scoreLower = 0
    /\ comments = <<RawComment(input, 0, 0, Det("en", 9), Str("NEUTRAL"), "other", 0)>>
    /\ sponsorIn = NoSponsorIn
    /\ op = "none"
    /\ ret = NoRet
    /\ scorerCalls = 0
    /\ NoSteps

IsQuestion ==
    /\ op = "none"
    /\ op' = "is_question"
    /\ ret' = [val |-> is_question(input)]
    /\ scorerCalls' = 0
    /\ InputsUnchanged

CategorizeComment ==
    /\ op = "none"
    /\ op' = "categorize_comment"
    /\ ret' = [val |-> categorize_comment(input)]
    /\ scorerCalls' = 0
    /\ InputsUnchanged

CategorizeComments ==
    /\ op = "none"
    /\ op' = "categorize_comments"
    /\ ret' = categorize_comments(comments)
    /\ scorerCalls' = 0
    /\ InputsUnchanged

\* text.lower() raises AttributeError when text is not a str
CategorizeQuestion ==
    /\ op = "none"
    /\ op' = "categorize_question"
    /\ ret' = IF input.isStr THEN [val |-> categorize_question(input.s)]
               ELSE [val |-> "raised"]
    /\ scorerCalls' = 0
    /\ InputsUnchanged

IsSpamComment ==
    /\ op = "none"
    /\ op' = "is_spam_comment"
    /\ ret' = IF input.isStr THEN [val |-> "ok", spam |-> is_spam_comment(input.s)]
               ELSE [val |-> "raised"]
    /\ scorerCalls' = 0
    /\ InputsUnchanged

NextCategory ==
    \/ IsQuestion
    \/ CategorizeComment
    \/ CategorizeComments
    \/ CategorizeQuestion
    \/ IsSpamComment

SpecCategory == InitCategory /\ [][NextCategory]_vars

(***************************************************************************)
(* The cascade of the specification (4.4): the rules in their order, each   *)
(* with the bucket the code gives it; the first rule that matches decides.  *)
(***************************************************************************)
ApiRuleMatches(text) ==
    <<ContainsAny(text, Api_appreciation_words),
      ContainsAny(text, Api_criticism_words),
      Contains(text, "?"),
      ContainsAny(text, Api_suggestion_words),
      ContainsAny(text, Api_feedback_words),
      ContainsAny(text, Api_spam_words),
      ContainsAny(text, Api_humor_words),
      ContainsAny(text, Api_technical_words),
      ContainsAny(text, Api_personal_words)>>

ApiRuleBuckets ==
    <<"appreciation", "criticism", "questions", "suggestions", "feedback", "spam",
      "humor", "technical", "personal">>

FirstMatch(matches, buckets) ==
    IF \E i \in 1..Len(matches) : matches[i]
    THEN buckets[CHOOSE i \in 1..Len(matches) :
                    matches[i] /\ \A j \in 1..(i - 1) : ~matches[j]]
    ELSE "other"

NumMatches(matches) == Cardinality({i \in 1..Len(matches) : matches[i]})

(***************************************************************************)
(* C2: analytics_api.categorize_comments gives each comment the bucket of   *)
(* the first matching rule in the order appreciation, criticism, question   *)
(* ('?' present), suggestion, feedback, spam, humor, technical, personal,   *)
(* and 'other' when no rule matches; with two matching rules the one of     *)
(* higher precedence wins (appreciation keyword and '?': appreciation).     *)
(***************************************************************************)
C2_ApiFirstMatchWins ==
    (op = "categorize_comments" /\ ret.val = "ok") =>
        \A i \in 1..Len(comments) :
            LET text == Lower(comments[i].text.s)
                got == ret.categorized_comments[i].category
            IN /\ got = FirstMatch(ApiRuleMatches(text), ApiRuleBuckets)
               /\ ret.categories[got] >= 1
               /\ (ContainsAny(text, Api_appreciation_words) /\ Contains(text, "?"))
                      => got = "appreciation"

\* a comment with an appreciation keyword and a '?' was categorized
C2_Witness ==
    /\ op = "categorize_comments"
    /\ ret.val = "ok"
    /\ \E i \in 1..Len(comments) :
          LET text == Lower(comments[i].text.s)
          IN /\ ContainsAny(text, Api_appreciation_words)
             /\ Contains(text, "?")
             /\ ret.categorized_comments[i].category = "appreciation"

(***************************************************************************)
(* C3: EnhancedYouTubeService.categorize_comment follows the cascade        *)
(* appreciation, criticism, question, suggestion, feedback, spam, other,    *)
(* first match winning: a text with an appreciation (criticism) keyword     *)
(* that also qualifies as a question is appreciation (criticism).           *)
(***************************************************************************)
C3_ServiceCascadeOrder ==
    (op = "categorize_comment" /\ input.isStr) =>
        LET text == Lower(input.s)
        IN ret.val = FirstMatch(<<ContainsAny(text, appreciation_words),
                                  ContainsAny(text, criticism_words),
                                  is_question(input),
                                  ContainsAny(text, suggestion_words),
                                  ContainsAny(text, feedback_words),
                                  ContainsAny(text, spam_indicators)>>,
                                <<"appreciation", "criticism", "question",
                                  "suggestion", "feedback", "spam">>)

(***************************************************************************)
(* C4: every category produced for a comment, by categorize_comments (the   *)
(* category field and the histogram keys) and by categorize_comment, is one *)
(* of appreciation, criticism, question, suggestion, feedback, spam, humor, *)
(* technical, personal, other.                                              *)
(***************************************************************************)
FixedLabels ==
    {"appreciation", "criticism", "question", "suggestion", "feedback", "spam",
     "humor", "technical", "personal", "other"}

C4_LabelsInFixedSet ==
    /\ op = "categorize_comment" => ret.val \in FixedLabels
    /\ (op = "categorize_comments" /\ ret.val = "ok") =>
          /\ \A i \in 1..Len(ret.categorized_comments) :
                ret.categorized_comments[i].category \in FixedLabels
          /\ DOMAIN ret.categories \subseteq FixedLabels

(***************************************************************************)
(* The aggregators on lists of comments.                                    *)
(***************************************************************************)
SampleComments ==
    {RawComment(Str("great video"), 4001, 4001, Det("en", 9), Str("POSITIVE"),
                "appreciation", 12),
     RawComment(Str("this is bad?"), -500, -500, Det("en", 3), Str("negative."),
                "criticism", 0),
     RawComment(Str("ok"), 500, 500, Det("fr", 9), Str("Neutral"), "other", 1),
     RawComment(Str("how to subscribe"), 0, 0, Det("en", 9), NotAStr, "question", 3),
     RawComment(Str("WOW great job {128580}"), 499, -499,
                [lang |-> "en", conf |-> 0, fails |-> TRUE], Str("not positive"),
                "spam", 2),
     RawComment(Str(""), 0, 0, Det("en", 0), Str(""), "other", 0)}

InitAgg ==
    /\ input = NotAStr
    /\ score = 0
    /\ scoreLower = 0
    /\ comments \in UNION {[1..n -> SampleComments] : n \in 0..MaxComments}
    /\ sponsorIn = NoSponsorIn
    /\ op = "none"
    /\ ret = NoRet
    /\ scorerCalls = 0
    /\ NoSteps

\* each comment that is a non-blank str costs classify_sentiment one call of
\* the scorer, and detect_sarcasm one
GetCommentsScorerCalls(cs) ==
    2 * Len(cs) - CountWhere([n \in 1..Len(cs) |-> IsBlank(cs[n].text.s)])

GetVideoAnalytics ==
    \E found \in BOOLEAN :
        /\ op = "none"
        /\ op' = "get_video_analytics"
        /\ ret' = get_video_analytics(found, comments)
        /\ scorerCalls' = IF found THEN GetCommentsScorerCalls(comments) ELSE 0
        /\ InputsUnchanged

CommentAnalytics ==
    /\ op = "none"
    /\ op' = "comment_analytics"
    /\ ret' = comment_analytics(comments)
    /\ scorerCalls' = GetCommentsScorerCalls(comments)
    /\ InputsUnchanged

AnalyzeComments ==
    /\ op = "none"
    /\ op' = "analyze_comments"
    /\ ret' = analyze_comments(comments)
    /\ scorerCalls' = Len(comments)
    /\ InputsUnchanged

AnalyzeVideo ==
    \E found \in BOOLEAN :
        /\ op = "none"
        /\ op' = "analyze_video"
        /\ ret' = analyze_video(found, comments)
        /\ scorerCalls' = IF found THEN Len(comments) ELSE 0
        /\ InputsUnchanged

GetComprehensiveComments ==
    /\ op = "none"
    /\ op' = "get_comprehensive_comments"
    /\ ret' = get_comprehensive_comments(comments)
    /\ scorerCalls' = 0
    /\ InputsUnchanged

AnalyzeCommentOverview ==
    /\ op = "none"
    /\ op' = "analyze_comment_overview"
    /\ ret' = analyze_comment_overview(comments)
    /\ scorerCalls' = 0
    /\ InputsUnchanged

NextAgg ==
    \/ GetVideoAnalytics
    \/ CommentAnalytics
    \/ AnalyzeComments
    \/ AnalyzeVideo
    \/ GetComprehensiveComments
    \/ CategorizeComments
    \/ AnalyzeCommentOverview

SpecAgg == InitAgg /\ [][NextAgg]_vars

(***************************************************************************)
(* C1: for a list of N analysed comments, the sentiment histogram and the   *)
(* category histogram an aggregator builds (get_video_analytics: both;      *)
(* categorize_comments: categories; get_comprehensive_comments: the         *)
(* sentiment counts and the categories of its overview; comment_analytics:  *)
(* sentiments) each sum to N.                                               *)
(***************************************************************************)
C1_HistogramsSumToN ==
    LET N == Len(comments)
    IN /\ (op = "get_video_analytics" /\ ret.val = "ok") =>
             /\ ret.total_comments = N
             /\ SumOf(ret.sentiment_distribution) = N
             /\ SumOf(ret.category_distribution) = N
       /\ (op = "categorize_comments" /\ ret.val = "ok") =>
             SumOf(ret.categories) = N
       /\ (op = "get_comprehensive_comments" /\ N > 0) =>
             /\ ret.total_comments = N
             /\ ret.positive_count + ret.negative_count + ret.neutral_count = N
             /\ SumOf(ret.comment_overview.categories) = N
       /\ (op = "comment_analytics" /\ ret.val = "ok") =>
             /\ ret.total_comments = N
             /\ SumOf(ret.sentiment_breakdown) = N

\* two comments that fall into different sentiment and category buckets
C1_Witness ==
    /\ op = "get_video_analytics"
    /\ ret.val = "ok"
    /\ Len(comments) >= 2
    /\ Cardinality(DOMAIN ret.sentiment_distribution) >= 2
    /\ Cardinality(DOMAIN ret.category_distribution) >= 2

(***************************************************************************)
(* C6: AnalyticsAgent.analyze_comments and youtube_analytics.analyze_video  *)
(* put every comment into the sentiment bucket classify_sentiment puts it   *)
(* in (positive iff compound >= 0.05, negative iff compound <= -0.05).      *)
(***************************************************************************)
ClassifyCount(cs, k) ==
    CountWhere([n \in 1..Len(cs) |-> classify_sentiment(cs[n].text, cs[n].compound).val = k])

C6_SameThresholdsEverywhere ==
    /\ (op = "analyze_comments" /\ ret.val = "ok") =>
          \A k \in SentimentKeys : ret.sentiment_breakdown[k] = ClassifyCount(comments, k)
    /\ (op = "analyze_video" /\ ret.val = "ok") =>
          /\ ret.positive = ClassifyCount(comments, "positive")
          /\ ret.negative = ClassifyCount(comments, "negative")
          /\ ret.neutral = ClassifyCount(comments, "neutral")

(***************************************************************************)
(* The sponsorship detector on a title, a description and a transcript.     *)
(***************************************************************************)
SponsorTitles == {"", "My day", "Sponsored by Acme {8212} use code SAVE10"}

SponsorDescriptions == {"", "Check out Acme, link in description.", "see https://x.co/a"}

SponsorTranscripts ==
    {"", "hello world",
     "this video is sponsored by NordVPN. visit nordvpn com",
     "thanks to Acme for the help",
     "use promo code abc123 at squarespace",
     "check out NordVPN, https://nordvpn.com",
     "head over to Acme and Co. Use code X1. Link in description."}

InitSponsor ==
    /\ input = NotAStr
    /\ score = 0
    /\ scoreLower = 0
    /\ comments = <<>>
    /\ sponsorIn \in [title : SponsorTitles, description : SponsorDescriptions,
                      transcript : SponsorTranscripts]
    /\ op = "none"
    /\ ret = NoRet
    /\ scorerCalls = 0
    /\ NoSteps

DetectSponsorships ==
    \E raised \in BOOLEAN :
        /\ op = "none"
        /\ op' = "detect_sponsorships"
        /\ ret' = [val |-> IF raised THEN "default" ELSE "ok",
                   result |-> detect_sponsorships(sponsorIn, raised)]
        /\ scorerCalls' = 0
        /\ InputsUnchanged

ExtractSponsorshipText ==
    /\ op = "none"
    /\ op' = "extract_sponsorship_text"
    /\ ret' = [val |-> "ok", result |-> extract_sponsorship_text(sponsorIn)]
    /\ scorerCalls' = 0
    /\ InputsUnchanged

NextSponsor ==
    \/ DetectSponsorships
    \/ ExtractSponsorshipText

SpecSponsor == InitSponsor /\ [][NextSponsor]_vars


(***************************************************************************)
(* The score and the level the specification gives for the signals a        *)
(* result lists.                                                            *)
(***************************************************************************)
SpecifiedScore(r) ==
    (IF r.detected_indicators = {} THEN 0 ELSE 30)
    + (IF r.detected_companies = {} THEN 0 ELSE 25)
    + (IF r.extracted_companies = {} THEN 0 ELSE 20)
    + (IF r.discount_codes = {} THEN 0 ELSE 15)
    + (IF r.urls = {} THEN 0 ELSE 10)

SpecifiedLevel(n) ==
    CASE n >= 70 -> "high"
      [] n >= 40 /\ n < 70 -> "medium"
      [] n >= 20 /\ n < 40 -> "low"
      [] n < 20 -> "none"

\* C9: detect_sponsorships computes confidence_score as the sum of the
\* weights of the kinds of signal that are present (indicator phrase 30,
\* known company 25, extracted company 20, discount code 15, URL 10; a kind
\* counts once however many matches it has), gives the level high from 70,
\* medium from 40, low from 20 and none below, and sets has_sponsorship
\* exactly when the score is at least 20, that is exactly when the level is
\* not 'none'.
C9_SponsorshipScoreAndLevel ==
    op = "detect_sponsorships" =>
        LET r == ret.result
        IN /\ r.confidence_score = SpecifiedScore(r)
           /\ r.sponsorship_level = SpecifiedLevel(r.confidence_score)
           /\ r.has_sponsorship = (r.confidence_score >= 20)
           /\ r.has_sponsorship = (r.sponsorship_level # "none")

\* two indicator phrases and an extracted company: 30 + 20, the indicators
\* counted once
C9_Witness ==
    /\ op = "detect_sponsorships"
    /\ ret.val = "ok"
    /\ ret.result.indicator_matches >= 2
    /\ ret.result.extracted_companies # {}
    /\ ret.result.confidence_score = 50
    /\ ret.result.sponsorship_level = "medium"
    /\ ret.result.has_sponsorship

\* C10: the confidence_score of every result of detect_sponsorships, the
\* default result returned after an exception included, is an integer from
\* 0 to 100.
C10_ConfidenceWithinPercent ==
    op = "detect_sponsorships" => ret.result.confidence_score \in 0..100

\* all five kinds of signal are present, one of them with several matches
C10_Witness ==
    /\ op = "detect_sponsorships"
    /\ ret.val = "ok"
    /\ ret.result.confidence_score = 100
    /\ ret.result.indicator_matches >= 2


\* C11: for the title "Sponsored by Acme - use code SAVE10" (the dash is
\* U+2014; description and transcript empty) detect_sponsorships returns
\* has_sponsorship = True, confidence_score >= 45 and discount_codes holding
\* "SAVE10" as written; every discount code it returns, for any input, is a
\* piece of the input text in the letter case it has there.
C11_DiscountCodeAsWritten ==
    (op = "detect_sponsorships" /\ ret.val = "ok") =>
        /\ \A code \in ret.result.discount_codes : Contains(FullText(sponsorIn), code)
        /\ sponsorIn = [title |-> "Sponsored by Acme {8212} use code SAVE10",
                        description |-> "", transcript |-> ""]
              => /\ ret.result.has_sponsorship
                 /\ ret.result.confidence_score >= 45
                 /\ "SAVE10" \in ret.result.discount_codes

\* C12: when detect_sponsorships reports a sponsorship and lists a
\* sponsorship phrase among its indicators, sponsorship_text is not empty
\* and one of its fragments holds a detected phrase, whether or not the
\* fragment ends with a period.
C12_EvidenceForEveryPhrase ==
    (op = "detect_sponsorships" /\ ret.val = "ok"
        /\ ret.result.has_sponsorship /\ ret.result.detected_indicators # {}) =>
        /\ ret.result.sponsorship_text # {}
        /\ \E seg \in ret.result.sponsorship_text :
              \E phrase \in ret.result.detected_indicators :
                  Contains(Lower(seg), phrase)


(***************************************************************************)
(* Engagement metrics of a video.                                           *)
(***************************************************************************)
\* analytics_api.py: the three rates of get_detailed_video_info
get_detailed_video_info(view_count, like_count, comment_count) ==
    LET engagement_rate == IF view_count > 0
                           THEN Times100(TrueDiv(like_count + comment_count, view_count))
                           ELSE Zero
        like_ratio == IF view_count > 0
                      THEN Times100(TrueDiv(like_count, view_count)) ELSE Zero
        comment_ratio == IF view_count > 0
                         THEN Times100(TrueDiv(comment_count, view_count)) ELSE Zero
    IN [engagement_rate |-> round2(engagement_rate),
        like_ratio |-> round2(like_ratio),
        comment_ratio |-> round2(comment_ratio)]

\* youtube_service.py: engagement_metrics of get_video_analytics
engagement_metrics(view_count, like_count, comment_count) ==
    [engagement_rate |-> IF view_count > 0
                         THEN TrueDiv(like_count + comment_count, view_count)
                         ELSE Zero,
     like_ratio |-> IF view_count > 0 THEN TrueDiv(like_count, view_count) ELSE Zero,
     comment_ratio |-> IF view_count > 0 THEN TrueDiv(comment_count, view_count)
                       ELSE Zero]

\* youtube_service.py: engagement_rate of an analyzed video of
\* compare_videos_by_keywords
analyzed_video_engagement_rate(view_count, like_count, comment_count) ==
    LET engagement_rate == IF view_count > 0
                           THEN Times100(TrueDiv(like_count + comment_count, view_count))
                           ELSE Zero
    IN round2(engagement_rate)

\* analytics_agent.py: engagement_rate of an analyzed video of
\* search_sponsored_videos
sponsored_video_engagement_rate(view_count, like_count, comment_count) ==
    LET engagement_rate == IF view_count > 0
                           THEN Times100(TrueDiv(like_count + comment_count, view_count))
                           ELSE Zero
    IN round2(engagement_rate)

original_video_analysis_unguarded(original_views, original_likes, original_comments) ==
    [engagement_rate |->
         round2(Times100(TrueDiv(original_likes + original_comments, original_views))),
     like_ratio |-> round2(Times100(TrueDiv(original_likes, original_views))),
     comment_ratio |-> round2(Times100(TrueDiv(original_comments, original_views)))]

\* youtube_service.py: original_video_analysis of analyze_technical_insights
original_video_analysis(original_views, original_likes, original_comments) ==
    LET original_engagement_rate ==
            IF original_views > 0
            THEN Times100(TrueDiv(original_likes + original_comments, original_views))
            ELSE Zero
        original_like_ratio ==
            IF original_views > 0
            THEN Times100(TrueDiv(original_likes, original_views)) ELSE Zero
        original_comment_ratio ==
            IF original_views > 0
            THEN Times100(TrueDiv(original_comments, original_views)) ELSE Zero
    IN [engagement_rate |-> round2(original_engagement_rate),
        like_ratio |-> round2(original_like_ratio),
        comment_ratio |-> round2(original_comment_ratio)]

\* app.py: additional_metrics of POST /api/analyze
additional_metrics(view_count, like_count, comment_count) ==
    [engagement_rate |-> Times100(TrueDiv(like_count, Max(view_count, 1))),
     comment_rate |-> Times100(TrueDiv(comment_count, Max(view_count, 1)))]

\* An exception inside a function leaves it through its except clause.
Raises(r) == \E f \in DOMAIN r : r[f] = ZeroDivisionError

Outcome(r) == IF Raises(r) THEN [val |-> "error"] ELSE [val |-> "ok", result |-> r]

(***************************************************************************)
(* Engagement: one call of one of the functions that compute the rates of  *)
(* a video, on the statistics the API reports for it.                       *)
(***************************************************************************)
ViewCounts == {0, 1, 3, 32, 1000}
LikeCounts == {0, 1, 5, 50}
CommentCounts == {0, 1, 10}

InitEngagement ==
    /\ input \in [view_count : ViewCounts, like_count : LikeCounts,
                  comment_count : CommentCounts]
    /\ score = 0
    /\ scoreLower = 0
    /\ comments = <<>>
    /\ sponsorIn = [title |-> "", description |-> "", transcript |-> ""]
    /\ op = "none"
    /\ ret = NoRet
    /\ scorerCalls = 0
    /\ NoSteps

GetDetailedVideoInfo ==
    /\ op = "none"
    /\ op' = "get_detailed_video_info"
    /\ ret' = Outcome(get_detailed_video_info(input.view_count, input.like_count,
                                              input.comment_count))
    /\ scorerCalls' = 0
    /\ InputsUnchanged

GetVideoAnalyticsEngagement ==
    /\ op = "none"
    /\ op' = "get_video_analytics"
    /\ ret' = Outcome(engagement_metrics(input.view_count, input.like_count,
                                         input.comment_count))
    /\ scorerCalls' = 0
    /\ InputsUnchanged

CompareVideosEngagement ==
    /\ op = "none"
    /\ op' = "compare_videos_by_keywords"
    /\ ret' = Outcome([engagement_rate |->
                  analyzed_video_engagement_rate(input.view_count, input.like_count,
                                                 input.comment_count)])
    /\ scorerCalls' = 0
    /\ InputsUnchanged

SearchSponsoredVideosEngagement ==
    /\ op = "none"
    /\ op' = "search_sponsored_videos"
    /\ ret' = Outcome([engagement_rate |->
                  sponsored_video_engagement_rate(input.view_count, input.like_count,
                                                  input.comment_count)])
    /\ scorerCalls' = 0
    /\ InputsUnchanged

AnalyzeTechnicalInsightsOriginal ==
    /\ op = "none"
    /\ op' = "analyze_technical_insights"
    /\ ret' = Outcome(original_video_analysis(input.view_count, input.like_count,
                                              input.comment_count))
    /\ scorerCalls' = 0
    /\ InputsUnchanged

ApiAnalyzeAdditionalMetrics ==
    /\ op = "none"
    /\ op' = "api_analyze"
    /\ ret' = Outcome(additional_metrics(input.view_count, input.like_count,
                                         input.comment_count))
    /\ scorerCalls' = 0
    /\ InputsUnchanged

NextEngagement ==
    \/ GetDetailedVideoInfo
    \/ GetVideoAnalyticsEngagement
    \/ CompareVideosEngagement
    \/ SearchSponsoredVideosEngagement
    \/ AnalyzeTechnicalInsightsOriginal
    \/ ApiAnalyzeAdditionalMetrics

SpecEngagement == InitEngagement /\ [][NextEngagement]_vars

ZeroViewSites ==
    {"get_detailed_video_info", "get_video_analytics", "compare_videos_by_keywords",
     "search_sponsored_videos", "analyze_technical_insights"}

\* C13: for a video with view_count = 0 and any like and comment counts,
\* get_detailed_video_info, get_video_analytics, compare_videos_by_keywords,
\* search_sponsored_videos and the original-video part of
\* analyze_technical_insights raise no division by zero and every
\* engagement_rate, like_ratio and comment_ratio they compute is 0.
C13_ZeroViewsGiveZeroRates ==
    (op \in ZeroViewSites /\ input.view_count = 0) =>
        /\ ret.val = "ok"
        /\ \A f \in DOMAIN ret.result : ret.result[f] = Zero

C13_Witness ==
    /\ op = "analyze_technical_insights"
    /\ input.view_count = 0
    /\ input.like_count > 0
    /\ input.comment_count > 0
    /\ ret.val = "ok"
    /\ ret.result.engagement_rate = Zero

SpecifiedEngagementRate(in) ==
    Times100(TrueDiv(in.like_count + in.comment_count, in.view_count))

\* C14: every engagement_rate emitted for a video with view_count > 0 is
\* (like_count + comment_count) / view_count * 100 (as computed or rounded
\* to two decimals); for view_count = 1000, like_count = 50 and
\* comment_count = 10 it is 6.0 in get_detailed_video_info, in the
\* engagement_metrics of get_video_analytics and in the additional_metrics
\* of POST /api/analyze.
C14_EngagementRateFormula ==
    (op # "none" /\ input.view_count > 0) =>
        /\ ret.val = "ok"
        /\ ret.result.engagement_rate \in
               {SpecifiedEngagementRate(input), round2(SpecifiedEngagementRate(input))}
        /\ (input = [view_count |-> 1000, like_count |-> 50, comment_count |-> 10]
              /\ op \in {"get_detailed_video_info", "get_video_analytics", "api_analyze"})
               => ret.result.engagement_rate = [n |-> 6, d |-> 1]


(***************************************************************************)
(* Insights: one call of generate_comment_insights on the categorization   *)
(* of total_comments comments and the average of their likes.               *)
(***************************************************************************)
InsightTotals == {4, 10}
InsightCounts == {0, 1, 3, 4}

\* the counts categorize_comments gives: every comment is in one category,
\* every question has one question type
InsightCategorizations(total) ==
    {[categories |->
          [k \in Api_categories |->
              CASE k = "appreciation" -> a
                [] k = "criticism" -> c
                [] k = "questions" -> q
                [] k = "spam" -> s
                [] k = "other" -> total - (a + c + q + s)
                [] OTHER -> 0],
      question_types |->
          [k \in Api_question_types |->
              CASE k = "how_to" -> h
                [] k = "general" -> q - h
                [] OTHER -> 0]] :
        <<a, c, q, s, h>> \in
            {t \in InsightCounts \X InsightCounts \X InsightCounts \X InsightCounts
                     \X InsightCounts :
                t[1] + t[2] + t[3] + t[4] <= total /\ t[5] \in {0, t[3]}}}

\* the sums of likes that put the average below, at and above 2 and 10
InsightLikes(total) ==
    {0, 2 * total - 1, 2 * total, 2 * total + 1,
     10 * total - 1, 10 * total, 10 * total + 1}

InitInsights ==
    /\ \E total \in InsightTotals :
          \E categorization \in InsightCategorizations(total) :
              \E total_likes \in InsightLikes(total) :
                  input = [categorization |-> categorization,
                           avg_likes |-> TrueDiv(total_likes, total),
                           total_comments |-> total]
    /\ score = 0
    /\ scoreLower = 0
    /\ comments = <<>>
    /\ sponsorIn = NoSponsorIn
    /\ op = "none"
    /\ ret = NoRet
    /\ scorerCalls = 0
    /\ NoSteps

GenerateCommentInsights ==
    /\ op = "none"
    /\ op' = "generate_comment_insights"
    /\ ret' = [val |-> "ok",
               insights |-> generate_comment_insights(input.categorization,
                                input.avg_likes, input.total_comments)]
    /\ scorerCalls' = 0
    /\ InputsUnchanged

NextInsights == GenerateCommentInsights

SpecInsights == InitInsights /\ [][NextInsights]_vars

Emitted(insights, prefix) == \E i \in 1..Len(insights) : StartsAt(insights[i], 1, prefix)

LargestCount(categories) == Greatest({categories[k] : k \in DOMAIN categories})

\* C15: generate_comment_insights emits the 'predominantly <category>'
\* insight exactly when the largest category count is strictly greater than
\* 30% of total_comments (and names a category of that count), the 'High
\* engagement' insight exactly when the average of likes is strictly greater
\* than 10 and the 'Low engagement' insight exactly when it is strictly less
\* than 2; at exactly 30%, 10 and 2 none is emitted, and high and low are
\* never emitted together.
C15_InsightThresholds ==
    op = "generate_comment_insights" =>
        LET categories == input.categorization.categories
            largest == LargestCount(categories)
            avg == input.avg_likes
            high == Emitted(ret.insights, "High engagement")
            low == Emitted(ret.insights, "Low engagement")
        IN /\ Emitted(ret.insights, "Comments are predominantly")
                <=> 10 * largest > 3 * input.total_comments
           /\ \A i \in 1..Len(ret.insights) :
                 StartsAt(ret.insights[i], 1, "Comments are predominantly") =>
                     \E k \in DOMAIN categories :
                         /\ categories[k] = largest
                         /\ ret.insights[i] = "Comments are predominantly " \o k \o " ("
                                                \o ToString(largest) \o " comments)"
           /\ high <=> avg.n > 10 * avg.d
           /\ low <=> avg.n < 2 * avg.d
           /\ ~(high /\ low)

C15_Witness ==
    /\ op = "generate_comment_insights"
    /\ 10 * LargestCount(input.categorization.categories) = 3 * input.total_comments
    /\ input.avg_likes = [n |-> 10, d |-> 1]
    /\ ~Emitted(ret.insights, "Comments are predominantly")
    /\ ~Emitted(ret.insights, "High engagement")
    /\ ~Emitted(ret.insights, "Low engagement")
    /\ Len(ret.insights) > 0


\* the list cs in the order p, a permutation of its indices
Permuted(cs, p) == [i \in 1..Len(cs) |-> cs[p[i]]]

\* C16: analyze_comment_overview does not depend on the order in which the
\* comments arrive: every permutation of the same comments gives the same
\* category and question-type histograms, the same total and average likes,
\* the same top_comments and the same most_liked_comment, also when several
\* comments have equal like counts.
C16_OverviewOrderIndependent ==
    (op = "analyze_comment_overview" /\ Len(comments) > 0) =>
        \A p \in Permutations(1..Len(comments)) :
            LET other == analyze_comment_overview(Permuted(comments, p))
            IN /\ other.categories = ret.categories
               /\ other.question_types = ret.question_types
               /\ other.engagement_metrics.total_likes = ret.engagement_metrics.total_likes
               /\ other.engagement_metrics.average_likes_per_comment
                      = ret.engagement_metrics.average_likes_per_comment
               /\ other.top_comments = ret.top_comments
               /\ other.engagement_metrics.most_liked_comment
                      = ret.engagement_metrics.most_liked_comment


(***************************************************************************)
(* Recommendation lists.                                                    *)
(***************************************************************************)
RatAdd(a, b) == Rat(a.n * b.d + b.n * a.d, a.d * b.d)

RatLess(a, b) == a.n * b.d < b.n * a.d

RECURSIVE RatSum(_)
RatSum(qs) == IF Len(qs) = 0 THEN Zero ELSE RatAdd(qs[1], RatSum(Tail(qs)))

\* list[:k]
Take(list, k) == SubSeq(list, 1, Least({k, Len(list)}))

performance_recommendations ==
    <<"{128200} Focus on increasing engagement through community interaction and calls-to-action",
      "{127919} Optimize title and thumbnail based on successful similar videos",
      "{9200} Analyze posting timing of high-performing videos in your niche">>

content_strategy_recommendations ==
    <<"{127925} Consider creating lyrics or karaoke content which shows high engagement",
      "{127991}{65039} Use trending tags from successful similar videos",
      "{128172} Encourage comments by asking questions or creating discussion points">>

technical_recommendations ==
    <<"{128202} Monitor engagement patterns and adjust content strategy accordingly",
      "{128269} Research trending keywords and incorporate them naturally",
      "{129309} Engage with your audience through comments and community posts">>

fallback_recommendations ==
    <<"Analyze your content performance and optimize based on successful similar videos">>

\* a variant that returns every recommendation it generated, against which
\* the cap of C17 is tested
generate_recommendations_uncapped(original_video, similar_videos) ==
    LET original_engagement ==
            Times100(TrueDiv(original_video.like_count + original_video.comment_count,
                             original_video.view_count))
        rates == [i \in 1..Len(similar_videos) |-> similar_videos[i].engagement_rate]
        avg_similar_engagement ==
            IF Len(similar_videos) > 0
            THEN Rat(RatSum(rates).n, RatSum(rates).d * Len(similar_videos)) ELSE Zero
    IN IF original_engagement = ZeroDivisionError THEN fallback_recommendations
       ELSE (IF RatLess(original_engagement, avg_similar_engagement)
             THEN performance_recommendations ELSE <<>>)
            \o (IF \E i \in 1..Len(rates) : rates[i].n > 3 * rates[i].d
                THEN content_strategy_recommendations ELSE <<>>)
            \o technical_recommendations

\* EnhancedYouTubeService.generate_recommendations; a division by zero is
\* caught by its except clause
generate_recommendations(original_video, similar_videos) ==
    LET original_engagement ==
            Times100(TrueDiv(original_video.like_count + original_video.comment_count,
                             original_video.view_count))
        rates == [i \in 1..Len(similar_videos) |-> similar_videos[i].engagement_rate]
        avg_similar_engagement ==
            IF Len(similar_videos) > 0
            THEN Rat(RatSum(rates).n, RatSum(rates).d * Len(similar_videos)) ELSE Zero
        high_engagement_videos == {i \in 1..Len(rates) : rates[i].n > 3 * rates[i].d}
        recommendations ==
            (IF RatLess(original_engagement, avg_similar_engagement)
             THEN performance_recommendations ELSE <<>>)
            \o (IF high_engagement_videos # {}
                THEN content_strategy_recommendations ELSE <<>>)
            \o technical_recommendations
    IN IF original_engagement = ZeroDivisionError THEN fallback_recommendations
       ELSE Take(recommendations, 8)

\* AnalyticsAgent.get_technical_insights on the result of
\* compare_videos_by_keywords
get_technical_insights(comparison_result) ==
    IF "error" \in DOMAIN comparison_result THEN comparison_result
    ELSE LET technical_insights == comparison_result.technical_insights
         IN [technical_insights |-> technical_insights,
             summary |->
                 [top_recommendations |->
                      Take(IF "recommendations" \in DOMAIN technical_insights
                           THEN technical_insights.recommendations ELSE <<>>, 3)]]

\* list.sort(key=lambda x: x['impact'], reverse=True): a stable sort
RECURSIVE sorted_by_impact(_)
sorted_by_impact(list) ==
    IF Len(list) = 0 THEN <<>>
    ELSE LET m == Greatest({list[i].impact : i \in 1..Len(list)})
             first == Least({i \in 1..Len(list) : list[i].impact = m})
         IN <<list[first]>>
            \o sorted_by_impact(SubSeq(list, 1, first - 1)
                                  \o SubSeq(list, first + 1, Len(list)))

RECURSIVE CriticalOf(_)
CriticalOf(tagged_insights) ==
    IF Len(tagged_insights) = 0 THEN <<>>
    ELSE LET insight == tagged_insights[1]
         IN (IF insight.priority = "Critical"
             THEN <<[priority |-> "High",
                     category |-> insight.tag,
                     action |-> insight.recommendation,
                     impact |-> IF "estimated_impact" \in DOMAIN insight
                                THEN insight.estimated_impact ELSE 50]>>
             ELSE <<>>)
            \o CriticalOf(Tail(tagged_insights))

\* app.py: generate_priority_recommendations
generate_priority_recommendations(tagged_insights) ==
    Take(sorted_by_impact(CriticalOf(tagged_insights)), 3)

(***************************************************************************)
(* Recommendations: one call of one of the three functions, on an original *)
(* video and the similar videos found for it, or on tagged insights.        *)
(***************************************************************************)
MaxSimilar == 2     \* similar videos per comparison
MaxInsights == 4    \* tagged insights per analysis

SimilarRates == {Rat(0, 100), Rat(300, 100), Rat(301, 100), Rat(650, 100)}

OriginalVideos ==
    [view_count : {0, 1000}, like_count : {0, 50}, comment_count : {0, 10}]

TaggedInsights ==
    {[tag |-> "High Impact", priority |-> "Critical", recommendation |-> "a",
      estimated_impact |-> 85],
     [tag |-> "High Impact", priority |-> "Critical", recommendation |-> "b",
      estimated_impact |-> 95],
     [tag |-> "High Impact", priority |-> "Critical", recommendation |-> "c"],
     [tag |-> "Content", priority |-> "Important", recommendation |-> "d",
      estimated_impact |-> 70]}

InitRecommend ==
    /\ \/ \E original_video \in OriginalVideos :
             \E n \in 0..MaxSimilar :
                 \E rates \in [1..n -> SimilarRates] :
                     input = [kind |-> "videos",
                              original_video |-> original_video,
                              similar_videos |->
                                  [i \in 1..n |-> [engagement_rate |-> rates[i]]]]
       \/ \E n \in 0..MaxInsights :
             \E tagged_insights \in [1..n -> TaggedInsights] :
                 input = [kind |-> "insights", tagged_insights |-> tagged_insights]
    /\ score = 0
    /\ scoreLower = 0
    /\ comments = <<>>
    /\ sponsorIn = NoSponsorIn
    /\ op = "none"
    /\ ret = NoRet
    /\ scorerCalls = 0
    /\ NoSteps

GenerateRecommendations ==
    /\ op = "none"
    /\ input.kind = "videos"
    /\ op' = "generate_recommendations"
    /\ ret' = [val |-> "ok",
               result |-> generate_recommendations(input.original_video,
                                                   input.similar_videos)]
    /\ scorerCalls' = 0
    /\ InputsUnchanged

\* the comparison either fails, or its technical insights fail, or they hold
\* the recommendations of generate_recommendations (youtube_service.py 1011)
GetTechnicalInsights ==
    \E outcome \in {"error", "insights_error", "ok"} :
        /\ op = "none"
        /\ input.kind = "videos"
        /\ op' = "get_technical_insights"
        /\ ret' = [val |-> outcome,
                   result |-> get_technical_insights(
                       CASE outcome = "error" -> [error |-> "Video not found"]
                         [] outcome = "insights_error" ->
                                [technical_insights |-> [error |-> "failed"]]
                         [] OTHER ->
                                [technical_insights |->
                                    [recommendations |->
                                        generate_recommendations(input.original_video,
                                                                 input.similar_videos)]])]
        /\ scorerCalls' = 0
        /\ InputsUnchanged

GeneratePriorityRecommendations ==
    /\ op = "none"
    /\ input.kind = "insights"
    /\ op' = "generate_priority_recommendations"
    /\ ret' = [val |-> "ok",
               result |-> generate_priority_recommendations(input.tagged_insights)]
    /\ scorerCalls' = 0
    /\ InputsUnchanged

NextRecommend ==
    \/ GenerateRecommendations
    \/ GetTechnicalInsights
    \/ GeneratePriorityRecommendations

SpecRecommend == InitRecommend /\ [][NextRecommend]_vars

\* C17: every recommendation list respects the cap of its call site:
\* generate_recommendations returns at most 8 strings (the first eight of
\* the nine it generates when all three groups apply),
\* top_recommendations of get_technical_insights holds at most 3, and
\* generate_priority_recommendations returns at most 3 items in
\* non-increasing order of impact.
C17_RecommendationCaps ==
    /\ op = "generate_recommendations" =>
          /\ Len(ret.result) <= 8
          /\ Len(ret.result) = 8 =>
                ret.result = Take(performance_recommendations
                                    \o content_strategy_recommendations
                                    \o technical_recommendations, 8)
    /\ (op = "get_technical_insights" /\ ret.val # "error") =>
          Len(ret.result.summary.top_recommendations) <= 3
    /\ op = "generate_priority_recommendations" =>
          /\ Len(ret.result) <= 3
          /\ \A i \in 1..(Len(ret.result) - 1) :
                ret.result[i].impact >= ret.result[i + 1].impact

C17_Witness ==
    /\ op = "generate_recommendations"
    /\ Len(ret.result) = 8
    /\ ret.result[1] = performance_recommendations[1]
    /\ ret.result[4] = content_strategy_recommendations[1]
    /\ \A i \in 1..8 : ret.result[i] # technical_recommendations[3]


(***************************************************************************)
(* EnhancedYouTubeService.compare_videos_by_keywords.  original_video is   *)
(* what get_video_info returns for video_id, similar_videos what the       *)
(* search returns and details[id] what get_video_info returns for a found  *)
(* video (found is FALSE for None).  Of an analyzed video the fields the   *)
(* selection and the order depend on are kept.                              *)
(***************************************************************************)
\* the mean of sum(count / view_count * 100 for v in similar_videos), a
\* division by zero when some view_count is 0
AverageRatio(counts, views) ==
    LET ratios == [i \in 1..Len(counts) |-> Times100(TrueDiv(counts[i], views[i]))]
    IN IF \E i \in 1..Len(ratios) : ratios[i] = ZeroDivisionError THEN ZeroDivisionError
       ELSE Rat(RatSum(ratios).n, RatSum(ratios).d * Len(ratios))

\* EnhancedYouTubeService.generate_content_insights: the comparison of the
\* original's engagement with the similar videos' average; a division by
\* zero is caught by its except clause, which returns {} (here <<>>).  The
\* videos carry no tags and no titles, so content_gaps and
\* trending_elements stay empty.
generate_content_insights(original_video, similar_videos) ==
    LET original_engagement ==
            Times100(TrueDiv(original_video.like_count + original_video.comment_count,
                             original_video.view_count))
        rates == [i \in 1..Len(similar_videos) |-> similar_videos[i].engagement_rate]
        avg_similar_engagement ==
            IF Len(similar_videos) > 0
            THEN Rat(RatSum(rates).n, RatSum(rates).d * Len(similar_videos)) ELSE Zero
        below == RatLess(original_engagement, avg_similar_engagement)
    IN IF original_engagement = ZeroDivisionError THEN <<>>
       ELSE [performance_comparison |->
                 [original_engagement_rate |-> round2(original_engagement),
                  average_similar_engagement |-> round2(avg_similar_engagement),
                  relative_performance |->
                      IF RatLess(avg_similar_engagement, original_engagement)
                      THEN "above_average" ELSE "below_average"],
             optimization_opportunities |-> IF below THEN 3 ELSE 0]

\* analyze_technical_insights: the analysis of the original video, the
\* averages over the similar videos (which divide by each view_count), the
\* content insights and the recommendations; an exception gives the error
\* result
analyze_technical_insights(original_video, similar_videos) ==
    LET n == Len(similar_videos)
        views == [i \in 1..n |-> similar_videos[i].view_count]
        avg_like_ratio == AverageRatio([i \in 1..n |-> similar_videos[i].like_count], views)
        avg_comment_ratio == AverageRatio([i \in 1..n |-> similar_videos[i].comment_count], views)
    IN IF \E i \in 1..n : similar_videos[i].view_count = 0
       THEN [error |-> "division by zero"]
       ELSE [original_video_analysis |->
                 original_video_analysis(original_video.view_count,
                                         original_video.like_count,
                                         original_video.comment_count),
             similar_videos_analysis |->
                 IF n > 0
                 THEN [like_ratio |-> round2(avg_like_ratio),
                       comment_ratio |-> round2(avg_comment_ratio)]
                 ELSE <<>>,
             content_insights |->
                 IF n > 0 THEN generate_content_insights(original_video, similar_videos)
                 ELSE <<>>,
             recommendations |->
                 IF n > 0
                 THEN generate_recommendations(original_video, similar_videos)
                 ELSE <<>>]

\* x sorts before y under key (engagement_rate, view_count), reverse=True
MoreRelevant(x, y) ==
    \/ RatLess(y.engagement_rate, x.engagement_rate)
    \/ x.engagement_rate = y.engagement_rate /\ x.view_count > y.view_count

\* analyzed_videos.sort(key=..., reverse=True): a stable sort
RECURSIVE sorted_by_relevance(_)
sorted_by_relevance(videos) ==
    IF Len(videos) = 0 THEN <<>>
    ELSE LET first == Least({i \in 1..Len(videos) :
                                \A j \in 1..Len(videos) : ~MoreRelevant(videos[j], videos[i])})
         IN <<videos[first]>>
            \o sorted_by_relevance(SubSeq(videos, 1, first - 1)
                                     \o SubSeq(videos, first + 1, Len(videos)))

\* a variant that trusts the channel_id of the search result and does not
\* check the fetched details again, against which the exclusion of C18 is
\* tested
skip_video_search_channel_only(video_id, original_channel_id, video, video_details) ==
    \/ video.id = video_id
    \/ video.channel_id = original_channel_id
    \/ ~video_details.found

\* the three `continue` tests of the loop: the original video itself, a
\* search result of the original's channel, details not found or of the
\* original's channel
skip_video(video_id, original_channel_id, video, video_details) ==
    \/ video.id = video_id
    \/ video.channel_id = original_channel_id
    \/ ~video_details.found
    \/ video_details.channel_id = original_channel_id

\* the loop over the search results, from the i-th on
RECURSIVE AnalyzeSimilar(_, _, _, _, _, _, _)
AnalyzeSimilar(video_id, max_results, original_channel_id, similar_videos, details, i, analyzed_videos) ==
    IF i > Len(similar_videos) THEN analyzed_videos
    ELSE LET video == similar_videos[i]
             video_details == details[video.id]
             skip == skip_video(video_id, original_channel_id, video, video_details)
             analyzed_video ==
                 [video_id |-> video.id,
                  channel_id |-> video_details.channel_id,
                  view_count |-> video_details.view_count,
                  like_count |-> video_details.like_count,
                  comment_count |-> video_details.comment_count,
                  engagement_rate |->
                      analyzed_video_engagement_rate(video_details.view_count,
                          video_details.like_count, video_details.comment_count)]
         IN IF skip
            THEN AnalyzeSimilar(video_id, max_results, original_channel_id,
                                similar_videos, details, i + 1, analyzed_videos)
            ELSE IF Len(analyzed_videos) + 1 >= max_results
            THEN Append(analyzed_videos, analyzed_video)
            ELSE AnalyzeSimilar(video_id, max_results, original_channel_id,
                                similar_videos, details, i + 1,
                                Append(analyzed_videos, analyzed_video))

compare_videos_by_keywords(video_id, max_results, original_video, similar_videos, details) ==
    IF ~original_video.found THEN [val |-> "error", error |-> "Original video not found"]
    ELSE LET original_channel_id == original_video.channel_id
             analyzed_videos ==
                 sorted_by_relevance(
                     AnalyzeSimilar(video_id, max_results, original_channel_id,
                                    similar_videos, details, 1, <<>>))
         IN [val |-> "ok",
             original_video |-> [video_id |-> video_id,
                                 channel_id |-> original_video.channel_id,
                                 view_count |-> original_video.view_count,
                                 like_count |-> original_video.like_count,
                                 comment_count |-> original_video.comment_count],
             similar_videos |-> Take(analyzed_videos, max_results),
             total_found |-> Len(analyzed_videos),
             excluded_same_channel |-> TRUE,
             technical_insights |->
                 analyze_technical_insights(original_video, analyzed_videos)]

(***************************************************************************)
(* Comparison: one call of compare_videos_by_keywords for the video        *)
(* "orig" of channel "chA"; the search returns any list of videos, each    *)
(* with the channel the search reports for it, and the details of a video  *)
(* report a channel of their own or are not found.                          *)
(***************************************************************************)
MaxSearch == 3      \* videos the search returns

VideoIds == {"orig", "v1", "v2", "v3"}
ChannelIds == {"chA", "chB"}

NotFound ==
    [found |-> FALSE, channel_id |-> "", view_count |-> 0, like_count |-> 0,
     comment_count |-> 0]

Details(channel_id, view_count, like_count, comment_count) ==
    [found |-> TRUE, channel_id |-> channel_id, view_count |-> view_count,
     like_count |-> like_count, comment_count |-> comment_count]

\* what get_video_info can return for each video
VideoDetails ==
    {[id \in VideoIds |->
         CASE id = "orig" -> Details("chA", 1000, 20, 5)
           [] id = "v1" -> d1
           [] id = "v2" -> d2
           [] OTHER -> Details("chB", 500, 25, 5)] :
        d1 \in {NotFound} \cup {Details(c, 1000, 50, 10) : c \in ChannelIds},
        d2 \in {NotFound} \cup {Details(c, 0, 5, 1) : c \in ChannelIds}}

InitCompare ==
    /\ \E max_results \in 1..2 :
          \E n \in 0..MaxSearch :
              \E similar_videos \in [1..n -> [id : VideoIds, channel_id : ChannelIds]] :
                  \E details \in VideoDetails :
                      input = [video_id |-> "orig", max_results |-> max_results,
                               similar_videos |-> similar_videos, details |-> details]
    /\ score = 0
    /\ scoreLower = 0
    /\ comments = <<>>
    /\ sponsorIn = NoSponsorIn
    /\ op = "none"
    /\ ret = NoRet
    /\ scorerCalls = 0
    /\ NoSteps

CompareVideosByKeywords ==
    \E found \in BOOLEAN :
        /\ op = "none"
        /\ op' = "compare_videos_by_keywords"
        /\ ret' = compare_videos_by_keywords(input.video_id, input.max_results,
                      IF found THEN input.details[input.video_id] ELSE NotFound,
                      input.similar_videos, input.details)
        /\ scorerCalls' = 0
        /\ InputsUnchanged

NextCompare == CompareVideosByKeywords

SpecCompare == InitCompare /\ [][NextCompare]_vars

\* C18: in every non-error result of compare_videos_by_keywords no entry of
\* similar_videos has the channel_id or the id of the original video,
\* similar_videos has at most max_results entries in non-increasing order
\* of (engagement_rate, view_count), and excluded_same_channel is True,
\* whatever the search returns, also when the channel_id of a search result
\* differs from the channel_id of the fetched details.
C18_SimilarVideosExcludeOriginal ==
    (op = "compare_videos_by_keywords" /\ ret.val = "ok") =>
        LET similar == ret.similar_videos
        IN /\ \A i \in 1..Len(similar) :
                 /\ similar[i].channel_id # ret.original_video.channel_id
                 /\ similar[i].video_id # input.video_id
           /\ Len(similar) <= input.max_results
           /\ \A i \in 1..(Len(similar) - 1) : ~MoreRelevant(similar[i + 1], similar[i])
           /\ ret.excluded_same_channel = TRUE

C18_Witness ==
    /\ op = "compare_videos_by_keywords"
    /\ ret.val = "ok"
    /\ Len(ret.similar_videos) = 2
    /\ \E i \in 1..Len(input.similar_videos) :
          LET video == input.similar_videos[i]
          IN /\ video.id # "orig"
             /\ video.channel_id = "chB"
             /\ input.details[video.id].found
             /\ input.details[video.id].channel_id = "chA"
    /\ \E i, j \in 1..Len(input.similar_videos) :
          /\ i < j
          /\ input.similar_videos[i].id = ret.similar_videos[2].video_id
          /\ input.similar_videos[j].id = ret.similar_videos[1].video_id
          /\ input.similar_videos[i].id # input.similar_videos[j].id


(***************************************************************************)
(* AnalyticsAgent.get_with_timeout.  The caller submits func to a          *)
(* ThreadPoolExecutor of one worker, waits in future.result(timeout), and  *)
(* leaves the `with` block through executor.__exit__, which is             *)
(* shutdown(wait=True): it joins the worker thread.  Time is counted in    *)
(* seconds from the call; func needs input.duration seconds, or never      *)
(* returns.  A step that is due happens before the clock moves on.         *)
(***************************************************************************)
MaxDuration == 3    \* seconds the wrapped function may need

Timeouts == {1, 2}

LastTick == MaxDuration + 1

TimeoutError(timeout) ==
    [error |-> "Operation exceeded " \o ToString(timeout) \o " seconds."]

InitTimeout ==
    /\ input \in [timeout : Timeouts, returns : BOOLEAN, duration : 0..MaxDuration,
                  outcome : {"value", "raises"}]
    /\ score = 0
    /\ scoreLower = 0
    /\ comments = <<>>
    /\ sponsorIn = NoSponsorIn
    /\ op = "none"
    /\ ret = NoRet
    /\ scorerCalls = 0
    /\ pc = [caller |-> "submit", worker |-> "idle"]
    /\ mem = [now |-> 0, future |-> "PENDING", pending |-> NoRet, returned_at |-> 0]

StepUnchanged == UNCHANGED <<input, score, scoreLower, comments, sponsorIn, scorerCalls>>

\* executor.submit(func, *args, **kwargs): the worker starts to run func
Submit ==
    /\ pc.caller = "submit"
    /\ pc' = [caller |-> "result", worker |-> "running"]
    /\ mem' = [mem EXCEPT !.future = "RUNNING"]
    /\ UNCHANGED <<op, ret>>
    /\ StepUnchanged

\* func returns or raises: the future is finished
WorkerFinishes ==
    /\ pc.worker = "running"
    /\ input.returns
    /\ mem.now = input.duration
    /\ pc' = [pc EXCEPT !.worker = "done"]
    /\ mem' = [mem EXCEPT !.future = "FINISHED"]
    /\ UNCHANGED <<op, ret>>
    /\ StepUnchanged

\* future.result(timeout=timeout) returns the value of func, or raises its
\* exception, which the inner except turns into an error value
ResultReady ==
    /\ pc.caller = "result"
    /\ mem.future = "FINISHED"
    /\ pc' = [pc EXCEPT !.caller = "shutdown"]
    /\ mem' = [mem EXCEPT !.pending =
                  IF input.outcome = "value" THEN [val |-> "value"]
                  ELSE [error |-> "Operation failed: boom"]]
    /\ UNCHANGED <<op, ret>>
    /\ StepUnchanged

\* future.result(timeout=timeout) raises TimeoutError at the deadline
ResultTimesOut ==
    /\ pc.caller = "result"
    /\ mem.future # "FINISHED"
    /\ mem.now = input.timeout
    /\ pc' = [pc EXCEPT !.caller = "cancel"]
    /\ UNCHANGED <<mem, op, ret>>
    /\ StepUnchanged

\* future.cancel() does not stop a future that is running or finished; the
\* return statement then holds the timeout value
Cancel ==
    /\ pc.caller = "cancel"
    /\ pc' = [pc EXCEPT !.caller = "shutdown"]
    /\ mem' = [mem EXCEPT !.pending = TimeoutError(input.timeout)]
    /\ UNCHANGED <<op, ret>>
    /\ StepUnchanged

\* executor.__exit__: shutdown(wait=True) joins the worker, then the value
\* is returned
Shutdown ==
    /\ pc.caller = "shutdown"
    /\ pc.worker = "done"
    /\ pc' = [pc EXCEPT !.caller = "returned"]
    /\ mem' = [mem EXCEPT !.returned_at = mem.now]
    /\ op' = "get_with_timeout"
    /\ ret' = mem.pending
    /\ StepUnchanged

Due ==
    \/ ENABLED Submit
    \/ ENABLED WorkerFinishes
    \/ ENABLED ResultReady
    \/ ENABLED ResultTimesOut
    \/ ENABLED Cancel
    \/ ENABLED Shutdown

\* a second passes
Tick ==
    /\ ~Due
    /\ mem.now < LastTick
    /\ mem' = [mem EXCEPT !.now = mem.now + 1]
    /\ UNCHANGED <<pc, op, ret>>
    /\ StepUnchanged

NextTimeout ==
    \/ Submit
    \/ WorkerFinishes
    \/ ResultReady
    \/ ResultTimesOut
    \/ Cancel
    \/ Shutdown
    \/ Tick

SpecTimeout == InitTimeout /\ [][NextTimeout]_vars

\* C19: get_with_timeout abandons an operation that exceeds its timeout:
\* when func is still running at the deadline the call returns the
\* "Operation exceeded N seconds." value at the deadline, without waiting
\* for func to finish, so the call is never still in progress after the
\* deadline, whether or not func ever returns.
C19_TimeoutAbandonsOperation ==
    /\ mem.now > input.timeout => pc.caller = "returned"
    /\ (pc.caller = "returned" /\ ret = TimeoutError(input.timeout)) =>
           mem.returned_at = input.timeout


(***************************************************************************)
(* EnhancedYouTubeService.execute_with_retry, rotate_api_key and           *)
(* add_api_key.  self is the part of the service the three methods use:    *)
(* api_keys, current_key_index (from 0) and api_key, the key of the client *)
(* in self.youtube.  A request either returns or raises an exception with  *)
(* one of the messages below.                                               *)
(***************************************************************************)
MaxKeys == 3        \* API keys a service may hold

ApiKeys == {"key" \o ToString(i) : i \in 1..MaxKeys}

ErrorMessages ==
    {"quotaExceeded: you have exceeded your quota", "Quota limit reached",
     "videoNotFound"}

\* a variant that reports a rotation but keeps the current key, against
\* which the rotation of C20 is tested
rotate_api_key_keeps_key(self) ==
    IF Len(self.api_keys) > 1
    THEN [self |-> self, result |-> TRUE]
    ELSE [self |-> self, result |-> FALSE]

\* a variant that advances the index but leaves api_key and the client on
\* the old key
rotate_api_key_stale_key(self) ==
    IF Len(self.api_keys) > 1
    THEN [self |-> [self EXCEPT !.current_key_index = (self.current_key_index + 1) % Len(self.api_keys)],
          result |-> TRUE]
    ELSE [self |-> self, result |-> FALSE]

rotate_api_key(self) ==
    IF Len(self.api_keys) > 1
    THEN LET current_key_index == (self.current_key_index + 1) % Len(self.api_keys)
         IN [self |-> [self EXCEPT !.current_key_index = current_key_index,
                                   !.api_key = self.api_keys[current_key_index + 1]],
             result |-> TRUE]
    ELSE [self |-> self, result |-> FALSE]

\* a variant without the membership test
add_api_key_appends(self, api_key) == [self EXCEPT !.api_keys = Append(self.api_keys, api_key)]

add_api_key(self, api_key) ==
    IF \A i \in 1..Len(self.api_keys) : self.api_keys[i] # api_key
    THEN [self EXCEPT !.api_keys = Append(self.api_keys, api_key)]
    ELSE self

\* a variant that takes either word for a quota error
is_quota_error_either(e) ==
    LET error_str == Lower(e)
    IN Contains(error_str, "quota") \/ Contains(error_str, "exceeded")

\* 'quota' in error_str and 'exceeded' in error_str
is_quota_error(e) ==
    LET error_str == Lower(e)
    IN Contains(error_str, "quota") /\ Contains(error_str, "exceeded")

\* the messages the except clause takes for a quota error
QuotaErrors == {e \in ErrorMessages : is_quota_error(e)}

\* __init__(api_key): the service holds the one key it was built with
InitRetry ==
    /\ input = NotAStr
    /\ score = 0
    /\ scoreLower = 0
    /\ comments = <<>>
    /\ sponsorIn = NoSponsorIn
    /\ op = "none"
    /\ ret = NoRet
    /\ scorerCalls = 0
    /\ pc = [caller |-> "idle"]
    /\ mem = [self |-> [api_keys |-> <<"key1">>, current_key_index |-> 0,
                        api_key |-> "key1"],
              max_retries |-> 0, attempt |-> 0, attempted |-> <<>>, e |-> ""]

AddApiKey ==
    \E api_key \in ApiKeys :
        /\ pc.caller = "idle"
        /\ mem' = [mem EXCEPT !.self = add_api_key(mem.self, api_key)]
        /\ op' = "add_api_key"
        /\ ret' = [val |-> "ok", api_key |-> api_key]
        /\ UNCHANGED pc
        /\ StepUnchanged

\* rotate_api_key called on its own
RotateApiKey ==
    /\ pc.caller = "idle"
    /\ LET rotated == rotate_api_key(mem.self)
       IN /\ mem' = [mem EXCEPT !.self = rotated.self]
          /\ ret' = [val |-> "ok", result |-> rotated.result]
    /\ op' = "rotate_api_key"
    /\ UNCHANGED pc
    /\ StepUnchanged

\* execute_with_retry is entered: max_retries = len(self.api_keys)
EnterExecuteWithRetry ==
    /\ pc.caller = "idle"
    /\ pc' = [caller |-> "try"]
    /\ mem' = [mem EXCEPT !.max_retries = Len(mem.self.api_keys), !.attempt = 0,
                          !.attempted = <<>>, !.e = ""]
    /\ op' = "execute_with_retry"
    /\ ret' = NoRet
    /\ StepUnchanged

\* one pass of the loop body: request_func runs with the current key and
\* returns ("ok") or raises an exception with one of the messages; e is
\* the exception caught, "" when the request returned
AttemptWith(outcomes) ==
    /\ pc.caller = "try"
    /\ mem.attempt < mem.max_retries
    /\ \E outcome \in outcomes :
          IF outcome = "ok"
          THEN /\ mem' = [mem EXCEPT !.attempted = Append(mem.attempted, mem.self.api_key), !.e = ""]
               /\ pc' = [caller |-> "idle"]
               /\ ret' = [val |-> "ok"]
          ELSE /\ mem' = [mem EXCEPT !.attempted = Append(mem.attempted, mem.self.api_key), !.e = outcome]
               /\ IF outcome \in QuotaErrors
                  THEN pc' = [caller |-> "rotate"] /\ ret' = ret
                  ELSE pc' = [caller |-> "idle"] /\ ret' = [val |-> "raised", error |-> outcome]
    /\ UNCHANGED op
    /\ StepUnchanged

\* the request may return or raise anything
Attempt == AttemptWith({"ok"} \cup ErrorMessages)

\* the quota branch: rotate and continue, or raise
Rotate ==
    /\ pc.caller = "rotate"
    /\ LET rotated == rotate_api_key(mem.self)
       IN IF rotated.result
          THEN /\ mem' = [mem EXCEPT !.self = rotated.self, !.attempt = mem.attempt + 1]
               /\ pc' = [caller |-> "try"]
               /\ ret' = ret
          ELSE /\ mem' = mem
               /\ pc' = [caller |-> "idle"]
               /\ ret' = [val |-> "raised", error |-> "All API keys have exceeded quota"]
    /\ UNCHANGED op
    /\ StepUnchanged

\* range(max_retries) is used up
Exhausted ==
    /\ pc.caller = "try"
    /\ mem.attempt >= mem.max_retries
    /\ pc' = [caller |-> "idle"]
    /\ ret' = [val |-> "raised", error |-> "All API keys failed"]
    /\ UNCHANGED <<mem, op>>
    /\ StepUnchanged

NextRetry ==
    \/ AddApiKey
    \/ RotateApiKey
    \/ EnterExecuteWithRetry
    \/ Attempt
    \/ Rotate
    \/ Exhausted

SpecRetry == InitRetry /\ [][NextRetry]_vars

\* the thread that runs the loop keeps running
SpecRetryFair == SpecRetry /\ WF_vars(Attempt \/ Rotate \/ Exhausted)

KeyIndex(api_keys, api_key) == CHOOSE i \in 1..Len(api_keys) : api_keys[i] = api_key

RetrySafe ==
    LET api_keys == mem.self.api_keys
        attempted == mem.attempted
        count == Len(api_keys)
    IN op = "execute_with_retry" =>
       /\ Len(attempted) <= count
       /\ \A i, j \in 1..Len(attempted) : i # j => attempted[i] # attempted[j]
       /\ \A i \in 1..(Len(attempted) - 1) :
             KeyIndex(api_keys, attempted[i + 1]) - 1
                 = (KeyIndex(api_keys, attempted[i]) - 1 + 1) % count
       /\ (pc.caller = "idle" /\ op = "execute_with_retry" /\ ret.val = "raised"
              /\ ret.error \notin ErrorMessages) =>
             /\ Len(attempted) = count
             /\ ret.error = IF count = 1 THEN "All API keys have exceeded quota"
                            ELSE "All API keys failed"

InCall == pc.caller # "idle"

\* C20: execute_with_retry is a bounded machine: it makes at most
\* len(api_keys) attempts, after each quota error it rotates to the next
\* key (index + 1 modulo the number of keys) so that no key is attempted
\* twice, and when every attempt fails with a quota error it ends by
\* raising an exhaustion error ('All API keys have exceeded quota' after one
\* attempt when there is a single key); a call that was entered always ends.
C20_RetryIsBounded == []RetrySafe /\ (InCall ~> ~InCall)

C20_Witness ==
    /\ pc.caller = "idle"
    /\ op = "execute_with_retry"
    /\ Len(mem.self.api_keys) = 3
    /\ mem.attempted = <<"key2", "key3", "key1">>
    /\ ret = [val |-> "raised", error |-> "All API keys failed"]


Malformed(v) == ~v.isStr \/ v.s = ""

\* C21: no classifier raises on malformed input: for a text that is not a
\* str or is empty, is_question returns False, categorize_comment returns
\* 'other', and categorize_comments, categorize_question and
\* is_spam_comment of analytics_api return their defaults ('other',
\* 'general', not spam) instead of raising.
C21_ClassifiersDegradeToDefault ==
    Malformed(input) =>
        /\ op = "is_question" => ret.val = FALSE
        /\ op = "categorize_comment" => ret.val = "other"
        /\ op = "categorize_comments" =>
              /\ ret.val = "ok"
              /\ ret.categorized_comments[1].category = "other"
        /\ op = "categorize_question" => ret.val = "general"
        /\ op = "is_spam_comment" => ret.val = "ok" /\ ~ret.spam


(***************************************************************************)
(* AIService (src/services/ai_service.py): generate_response,              *)
(* analyze_sentiment and categorize_comment.  json.loads is modelled for   *)
(* JSON texts made of objects, strings without escapes and unsigned        *)
(* numbers; the responses drawn below contain no other JSON value.  A      *)
(* parsed value is a record [ok, end, t, s, items]: t is "str", "num" or   *)
(* "dict", items the members of an object in the order they were read.     *)
(***************************************************************************)
JSONDecodeError == [ok |-> FALSE, end |-> 0, t |-> "", s |-> "", items |-> <<>>]

JsonValue(t, s, items, end) == [ok |-> TRUE, end |-> end, t |-> t, s |-> s, items |-> items]

\* the character at position i, "" past the end
At(s, i) == IF i >= 1 /\ i <= Len(s) THEN Char(s, i) ELSE ""

\* the first position from i on that holds no whitespace
SkipWs(s, i) == Least({j \in i..(Len(s) + 1) : ~IsSpace(At(s, j))})

\* the first position from i on that holds no digit
SkipDigits(s, i) == Least({j \in i..(Len(s) + 1) : ~IsDigit(At(s, j))})

\* a string: from the quote at i to the next quote
ParseString(s, i) ==
    LET closing == {j \in (i + 1)..Len(s) : Char(s, j) = "\""}
    IN IF At(s, i) # "\"" \/ closing = {} THEN JSONDecodeError
       ELSE LET j == Least(closing)
            IN JsonValue("str", SubSeq(s, i + 1, j - 1), <<>>, j + 1)

\* a number: 0 or digits without a leading 0, then an optional fraction
ParseNumber(s, i) ==
    LET intEnd == IF At(s, i) = "0" THEN i + 1 ELSE SkipDigits(s, i)
        fracEnd == SkipDigits(s, intEnd + 1)
        end == IF At(s, intEnd) = "." /\ fracEnd > intEnd + 1 THEN fracEnd ELSE intEnd
    IN IF intEnd = i THEN JSONDecodeError
       ELSE JsonValue("num", SubSeq(s, i, end - 1), <<>>, end)

RECURSIVE ParseValue(_, _)
RECURSIVE ParseMembers(_, _, _)

\* the members of an object from the key at i on, up to the closing brace
ParseMembers(s, i, acc) ==
    LET key == ParseString(s, i)
        colon == SkipWs(s, key.end)
        value == ParseValue(s, SkipWs(s, colon + 1))
        after == SkipWs(s, value.end)
        items == Append(acc, [key |-> key.s, value |-> value])
    IN IF ~key.ok \/ At(s, colon) # ":" THEN JSONDecodeError
       ELSE IF ~value.ok THEN JSONDecodeError
       ELSE IF At(s, after) = "}" THEN JsonValue("dict", "", items, after + 1)
       ELSE IF At(s, after) = "," THEN ParseMembers(s, SkipWs(s, after + 1), items)
       ELSE JSONDecodeError

ParseObject(s, i) ==
    LET first == SkipWs(s, i + 1)
    IN IF At(s, first) = "}" THEN JsonValue("dict", "", <<>>, first + 1)
       ELSE ParseMembers(s, first, <<>>)

ParseValue(s, i) ==
    IF At(s, i) = "\"" THEN ParseString(s, i)
    ELSE IF At(s, i) = "{" THEN ParseObject(s, i)
    ELSE IF IsDigit(At(s, i)) THEN ParseNumber(s, i)
    ELSE JSONDecodeError

\* json.loads(s): one value between optional whitespace, nothing after it
json_loads(s) ==
    LET value == ParseValue(s, SkipWs(s, 1))
    IN IF value.ok /\ SkipWs(s, value.end) = Len(s) + 1 THEN value
       ELSE JSONDecodeError

\* t.rfind(k) + 1: the last position of k in t, 0 if there is none
RFind(t, k) ==
    LET at == {i \in 1..Len(t) : StartsAt(t, i, k)}
    IN IF at = {} THEN 0 ELSE Greatest(at)

\* d.get(key): the value of the last member with that key
DictGet(d, key) ==
    LET at == {i \in 1..Len(d.items) : d.items[i].key = key}
    IN IF at = {} THEN JSONDecodeError ELSE d.items[Greatest(at)].value

\* the outcome of client.chat.completions.create: it raises (fails, with
\* str(e) in error) or returns the message content, "" for None or ''
ApiCall(fails, content, error) == [fails |-> fails, content |-> content, error |-> error]

generate_response(api) ==
    IF api.fails THEN "Error: " \o api.error
    ELSE IF api.content # "" THEN api.content
    ELSE "No response generated"

\* response[start:end] with start = find('{') and end = rfind('}') + 1
ExtractJson(response) == SubSeq(response, Find(response, "{"), RFind(response, "}"))

HasBraces(response) == Contains(response, "{") /\ Contains(response, "}")

DefaultDict(field, value, reasoning) ==
    JsonValue("dict", "", <<[key |-> field, value |-> JsonValue("str", value, <<>>, 0)], [key |-> "confidence", value |-> JsonValue("num", "0.5", <<>>, 0)], [key |-> "reasoning", value |-> JsonValue("str", reasoning, <<>>, 0)]>>, 0)

\* the dict of a call, without the end position of the parse
Returned(d) == [val |-> "dict", d |-> [d EXCEPT !.end = 0]]

\* the body of the two methods with the except clause removed: json.loads'
\* error leaves the method
ParseOrRaise(api, field, value) ==
    LET response == generate_response(api)
    IN IF HasBraces(response)
       THEN LET parsed == json_loads(ExtractJson(response))
            IN IF parsed.ok THEN Returned(parsed) ELSE [val |-> "raised", d |-> JSONDecodeError]
       ELSE Returned(DefaultDict(field, value, "Could not parse AI response"))

ParseOrDefault(api, field, value) ==
    LET response == generate_response(api)
    IN IF HasBraces(response)
       THEN LET parsed == json_loads(ExtractJson(response))
            IN IF parsed.ok THEN Returned(parsed)
               ELSE Returned(DefaultDict(field, value, "Error: JSONDecodeError"))
       ELSE Returned(DefaultDict(field, value, "Could not parse AI response"))

analyze_sentiment(api) == ParseOrDefault(api, "sentiment", "neutral")

AIService_categorize_comment(api) == ParseOrDefault(api, "category", "other")

JsonBodies ==
    { "{\"sentiment\": \"positive\", \"confidence\": 0.9}",
      "{\"category\": \"spam\", \"confidence\": 1, \"reasoning\": \"links\"}",
      "{ \"sentiment\" : \"negative\" }",
      "{\"a\": {\"b\": \"c\"}}",
      "{}",
      "{\"sentiment\": positive}",
      "{'sentiment': 'positive'}",
      "{\"sentiment\": \"positive\",}",
      "{\"confidence\": 05}",
      "{\"sentiment\" \"positive\"}",
      "{\"sentiment\": \"positive\"",
      "\"sentiment\": \"positive\"}",
      "The sentiment is positive.",
      "" }

JsonPrefixes == {"", "Here is the JSON: ", "} "}
JsonSuffixes == {"", " Hope this helps!", " {"}

ApiErrors == {"Connection error.", "Error code: 401 - {'error': {'message': 'Incorrect API key'}}", "Error code: 500 - {}"}

ApiCalls ==
    {ApiCall(FALSE, p \o b \o s, "") : p \in JsonPrefixes, b \in JsonBodies, s \in JsonSuffixes}
        \cup {ApiCall(TRUE, "", e) : e \in ApiErrors}

InitAI ==
    /\ input \in ApiCalls
    /\ score = 0
    /\ scoreLower = 0
    /\ comments = <<>>
    /\ sponsorIn = NoSponsorIn
    /\ op = "none"
    /\ ret = NoRet
    /\ scorerCalls = 0
    /\ NoSteps

AnalyzeSentiment ==
    /\ op = "none"
    /\ op' = "analyze_sentiment"
    /\ ret' = analyze_sentiment(input)
    /\ scorerCalls' = 0
    /\ InputsUnchanged

AICategorizeComment ==
    /\ op = "none"
    /\ op' = "AIService.categorize_comment"
    /\ ret' = AIService_categorize_comment(input)
    /\ scorerCalls' = 0
    /\ InputsUnchanged

NextAI == AnalyzeSentiment \/ AICategorizeComment

SpecAI == InitAI /\ [][NextAI]_vars

\* the part of the response between its first '{' and its last '}' is a
\* JSON document
Parseable(response) == HasBraces(response) /\ json_loads(ExtractJson(response)).ok

DefaultOf(method) == IF method = "analyze_sentiment" THEN [field |-> "sentiment", value |-> "neutral"] ELSE [field |-> "category", value |-> "other"]

\* C23: AIService.analyze_sentiment and AIService.categorize_comment never
\* propagate an exception: for every outcome of the model call (API failure,
\* text without braces, text with braces that is not valid JSON) they return
\* a dictionary, and whenever no JSON can be parsed from the response the
\* dictionary is the fixed default with sentiment 'neutral' (category
\* 'other' for categorize_comment) and confidence 0.5.
C23_AIServiceReturnsDictOrDefault ==
    op \in {"analyze_sentiment", "AIService.categorize_comment"} =>
        /\ ret.val = "dict"
        /\ ret.d.t = "dict"
        /\ ~Parseable(generate_response(input)) =>
              /\ Len(ret.d.items) = 3
              /\ DictGet(ret.d, DefaultOf(op).field) = JsonValue("str", DefaultOf(op).value, <<>>, 0)
              /\ DictGet(ret.d, "confidence") = JsonValue("num", "0.5", <<>>, 0)

\* a response with braces whose braced part is not valid JSON was answered
C23_Witness ==
    /\ op = "analyze_sentiment"
    /\ ~input.fails
    /\ HasBraces(input.content)
    /\ ~json_loads(ExtractJson(input.content)).ok
    /\ ret.val = "dict"


(***************************************************************************)
(* The analysis endpoints: POST /api/analyze of src/app.py and POST        *)
(* /analyze of analytics_api.py.  A request is described by what the       *)
(* YouTube API and the analysis do with it: video_url is "missing",         *)
(* "invalid" or "valid"; video is "found", "absent" (no items) or "raises"; *)
(* comments is "disabled" (the request raises), "none" (no items) or        *)
(* "some"; analysis is "ok" or "raises".  A response is its status code,    *)
(* the keys of its JSON body and its error text.                            *)
(***************************************************************************)
Response(status, body, error) == [val |-> status, body |-> body, error |-> error]

\* app.py: YouTubeCommentAnalyzer.get_video_info: None unless an item came
App_get_video_info(video) == IF video = "found" THEN "info" ELSE "None"

\* app.py: YouTubeCommentAnalyzer.get_comments: the list collected, empty
\* when the request raised or brought no items
App_get_comments(fetch) == IF fetch = "some" THEN "comments" ELSE "empty"

App_analyze_video(request) ==
    IF request.video_url = "missing" THEN Response(400, {"error"}, "video_url is required")
    ELSE IF request.video_url = "invalid" THEN Response(400, {"error"}, "Invalid YouTube URL")
    ELSE IF App_get_video_info(request.video) = "None" THEN Response(404, {"error"}, "Video not found or private")
    ELSE IF App_get_comments(request.comments) = "empty" THEN Response(404, {"error"}, "No comments found or comments are disabled")
    ELSE IF request.analysis = "raises" THEN Response(500, {"error"}, "Internal server error")
    ELSE Response(200, {"success", "video_info", "analysis", "tagged_insights", "additional_metrics", "recommendations", "benchmark_comparison"}, "")

\* analytics_api.py: get_detailed_video_info: None, {"error": ...} or the data
Api_video_data(video) == IF video = "found" THEN "data" ELSE IF video = "absent" THEN "None" ELSE "error"

\* analytics_api.py: get_comprehensive_comments: {"error": ...} when the
\* request or the analysis raises
Api_comment_data(fetch, analysis) ==
    IF fetch = "disabled" THEN "error"
    ELSE IF fetch = "none" THEN "empty"
    ELSE IF analysis = "raises" THEN "error" ELSE "data"

Api_analyze_video(request) ==
    IF request.video_url = "missing" THEN Response(400, {"error"}, "Video ID required")
    ELSE IF Api_video_data(request.video) \in {"None", "error"} THEN Response(400, {"error"}, "Could not fetch video data")
    ELSE Response(200, {"video_id", "video_analytics", "comment_analytics", "performance_metrics", "analyzed_at"}, "")

Requests ==
    [video_url : {"missing", "invalid", "valid"}, video : {"found", "absent", "raises"}, comments : {"disabled", "none", "some"}, analysis : {"ok", "raises"}]

InitAnalyze ==
    /\ input \in Requests
    /\ score = 0
    /\ scoreLower = 0
    /\ comments = <<>>
    /\ sponsorIn = NoSponsorIn
    /\ op = "none"
    /\ ret = NoRet
    /\ scorerCalls = 0
    /\ NoSteps

AppAnalyzeVideo ==
    /\ op = "none"
    /\ op' = "app.analyze_video"
    /\ ret' = App_analyze_video(input)
    /\ scorerCalls' = 0
    /\ InputsUnchanged

\* the video id of the request body is taken as given: "invalid" is a
\* non-empty id like any other
ApiAnalyzeVideo ==
    /\ op = "none"
    /\ op' = "analytics_api.analyze_video"
    /\ ret' = Api_analyze_video(input)
    /\ scorerCalls' = 0
    /\ InputsUnchanged

NextAnalyze == AppAnalyzeVideo \/ ApiAnalyzeVideo

SpecAnalyze == InitAnalyze /\ [][NextAnalyze]_vars

CommentsUnavailable(request) ==
    /\ request.video_url = "valid"
    /\ request.video = "found"
    /\ request.comments = "disabled"

\* C22: when fetching the video info succeeds but the video's comments are
\* disabled or cannot be fetched, POST /api/analyze of app.py and POST
\* /analyze of analytics_api.py answer with a successful response whose
\* partial results include the video info, not with an error for the whole
\* request.
C22_PartialResultsWithoutComments ==
    CommentsUnavailable(input) =>
        /\ op = "app.analyze_video" => (ret.val = 200 /\ "video_info" \in ret.body)
        /\ op = "analytics_api.analyze_video" => (ret.val = 200 /\ "video_analytics" \in ret.body)

\* the part of the claim about analytics_api.py alone
ApiPartialResults ==
    (CommentsUnavailable(input) /\ op = "analytics_api.analyze_video") => (ret.val = 200 /\ "video_analytics" \in ret.body)


(***************************************************************************)
(* is_english called on its own, for EnhancedYouTubeService and for         *)
(* YouTubeCommentAnalyzer of app.py (the same body).                         *)
(***************************************************************************)
App_is_english(v, det) == is_english(v, det)

EnglishTexts ==
    { NotAStr, Str(""), Str("  "), Str("great video"), Str("hola amigo"),
      Str("gracias por el video"), Str("ok"), Str("{1087}{1088}{1080}{1074}{1077}{1090}"),
      Str("ok {1076}{1072}"), Str("nice {128077}"), Str("abcd{233}"), Str("abc{233}"),
      Str("cafe{233} ole{233} ok") }

Detections ==
    {Det(lang, conf) : lang \in {"en", "es", "ru"}, conf \in {3, 9}} \cup {[lang |-> "", conf |-> 0, fails |-> TRUE]}

InitEnglish ==
    /\ input \in [text : EnglishTexts, det : Detections]
    /\ score = 0
    /\ scoreLower = 0
    /\ comments = <<>>
    /\ sponsorIn = NoSponsorIn
    /\ op = "none"
    /\ ret = NoRet
    /\ scorerCalls = 0
    /\ NoSteps

IsEnglish ==
    /\ op = "none"
    /\ op' = "is_english"
    /\ ret' = [val |-> is_english(input.text, input.det)]
    /\ scorerCalls' = 0
    /\ InputsUnchanged

AppIsEnglish ==
    /\ op = "none"
    /\ op' = "app.is_english"
    /\ ret' = [val |-> App_is_english(input.text, input.det)]
    /\ scorerCalls' = 0
    /\ InputsUnchanged

NextEnglish == IsEnglish \/ AppIsEnglish

SpecEnglish == InitEnglish /\ [][NextEnglish]_vars

DetectedEnglish(det) == ~det.fails /\ det.lang = "en" /\ det.conf > 5

\* C24: is_english returns False for empty or non-string input, and for a
\* non-empty text it returns True whenever the detected language is English
\* with confidence above the threshold or the fraction of ASCII characters
\* exceeds 0.7, also when the detector reports another language.
C24_AsciiHeavyIsEnglish ==
    op \in {"is_english", "app.is_english"} =>
        /\ (~input.text.isStr \/ input.text.s = "") => (ret.val = FALSE)
        /\ (input.text.isStr /\ ~IsBlank(input.text.s) /\ (DetectedEnglish(input.det) \/ AsciiRatioAbove(input.text.s, 7))) => (ret.val = TRUE)

\* what holds of the code: without a detection of English the ASCII
\* fraction does not make a text English
EnglishNeedsDetection ==
    (op \in {"is_english", "app.is_english"} /\ ~input.det.fails /\ input.det.lang # "en") => (ret.val = FALSE)


(***************************************************************************)
(* Technical insights: one call of analyze_technical_insights or of        *)
(* generate_content_insights on an original video and the analyzed similar *)
(* videos, each with the engagement_rate compare_videos_by_keywords gave it.*)
(***************************************************************************)
AnalyzedVideos ==
    {[view_count |-> v, like_count |-> l, comment_count |-> c, engagement_rate |-> analyzed_video_engagement_rate(v, l, c)] : v \in {0, 500}, l \in {0, 20}, c \in {5}}

InitTechnical ==
    /\ \E original_video \in OriginalVideos :
          \E n \in 0..MaxSimilar :
              \E similar_videos \in [1..n -> AnalyzedVideos] :
                  input = [original_video |-> original_video, similar_videos |-> similar_videos]
    /\ score = 0
    /\ scoreLower = 0
    /\ comments = <<>>
    /\ sponsorIn = NoSponsorIn
    /\ op = "none"
    /\ ret = NoRet
    /\ scorerCalls = 0
    /\ NoSteps

AnalyzeTechnicalInsights ==
    /\ op = "none"
    /\ op' = "analyze_technical_insights"
    /\ ret' = [val |-> "ok", result |-> analyze_technical_insights(input.original_video, input.similar_videos)]
    /\ scorerCalls' = 0
    /\ InputsUnchanged

GenerateContentInsights ==
    /\ op = "none"
    /\ op' = "generate_content_insights"
    /\ ret' = [val |-> "ok", result |-> generate_content_insights(input.original_video, input.similar_videos)]
    /\ scorerCalls' = 0
    /\ InputsUnchanged

NextTechnical == AnalyzeTechnicalInsights \/ GenerateContentInsights

SpecTechnical == InitTechnical /\ [][NextTechnical]_vars

\* C25: analyze_technical_insights returns a full insights result, never an
\* error value, for every original video and every non-empty list of
\* similar videos, also when the original or a similar video has
\* view_count = 0, and generate_content_insights and
\* generate_recommendations then return their normal results, not their
\* exception fallbacks.
C25_InsightsSurviveZeroViews ==
    (op = "analyze_technical_insights" /\ Len(input.similar_videos) > 0) =>
        /\ "error" \notin DOMAIN ret.result
        /\ ret.result.content_insights # <<>>
        /\ ret.result.recommendations # fallback_recommendations

\* what holds of the code: with no view_count of 0 among the similar videos
\* the full result is returned, and with none at all the inner functions
\* give their normal results
InsightsWithViews ==
    (op = "analyze_technical_insights" /\ Len(input.similar_videos) > 0 /\ \A i \in 1..Len(input.similar_videos) : input.similar_videos[i].view_count > 0) =>
        /\ "error" \notin DOMAIN ret.result
        /\ input.original_video.view_count > 0 =>
              /\ ret.result.content_insights # <<>>
              /\ ret.result.recommendations # fallback_recommendations


\* the message does not contain both 'quota' and 'exceeded'
LacksQuotaExceeded(message) ==
    ~(Contains(Lower(message), "quota") /\ Contains(Lower(message), "exceeded"))

\* an attempt of the loop has just raised message
AttemptRaised(message) ==
    /\ pc.caller = "try"
    /\ Len(mem'.attempted) = Len(mem.attempted) + 1
    /\ mem'.e = message

\* C26: key rotation happens on quota errors only: when the request passed
\* to execute_with_retry fails with an error whose message does not contain
\* both 'quota' and 'exceeded', the error is re-raised at once after that
\* attempt, no rotation occurs, and api_keys, current_key_index and api_key
\* are unchanged.
C26_OtherErrorsAreReraised ==
    [][\A message \in ErrorMessages :
          (AttemptRaised(message) /\ LacksQuotaExceeded(message)) =>
              /\ pc'.caller = "idle"
              /\ ret' = [val |-> "raised", error |-> message]
              /\ mem'.self = mem.self
              /\ mem'.attempt = mem.attempt]_vars

\* with two keys, the first attempt raised an error that names the quota
\* but not 'exceeded', and the call ended on the first key
C26_Witness ==
    /\ op = "execute_with_retry"
    /\ pc.caller = "idle"
    /\ ret = [val |-> "raised", error |-> "Quota limit reached"]
    /\ mem.attempted = <<"key1">>
    /\ mem.self = [api_keys |-> <<"key1", "key2">>, current_key_index |-> 0, api_key |-> "key1"]


(***************************************************************************)
(* execute_with_retry against keys with and without quota: with_quota is   *)
(* the set of keys that still have quota; a request made with such a key   *)
(* returns, a request made with any other key raises the quota error.      *)
(***************************************************************************)
QuotaExceeded == "quotaExceeded: you have exceeded your quota"

InitQuota ==
    /\ input \in [with_quota : SUBSET ApiKeys]
    /\ score = 0
    /\ scoreLower = 0
    /\ comments = <<>>
    /\ sponsorIn = NoSponsorIn
    /\ op = "none"
    /\ ret = NoRet
    /\ scorerCalls = 0
    /\ pc = [caller |-> "idle"]
    /\ mem = [self |-> [api_keys |-> <<"key1">>, current_key_index |-> 0, api_key |-> "key1"],
              max_retries |-> 0, attempt |-> 0, attempted |-> <<>>, e |-> ""]

AttemptWithQuota ==
    AttemptWith(IF mem.self.api_key \in input.with_quota THEN {"ok"} ELSE {QuotaExceeded})

NextQuota ==
    \/ AddApiKey
    \/ RotateApiKey
    \/ EnterExecuteWithRetry
    \/ AttemptWithQuota
    \/ Rotate
    \/ Exhausted

SpecQuota == InitQuota /\ [][NextQuota]_vars

\* the thread that runs the loop keeps running
SpecQuotaFair == SpecQuota /\ WF_vars(AttemptWithQuota \/ Rotate \/ Exhausted)

SomeKeyHasQuota == \E i \in 1..Len(mem.self.api_keys) : mem.self.api_keys[i] \in input.with_quota

QuotaSafe ==
    (op = "execute_with_retry" /\ SomeKeyHasQuota) =>
        /\ Len(mem.attempted) <= Len(mem.self.api_keys)
        /\ pc.caller = "idle" =>
              /\ ret = [val |-> "ok"]
              /\ mem.self.api_key \in input.with_quota
              /\ mem.attempted[Len(mem.attempted)] = mem.self.api_key
              /\ mem.self.api_key = mem.self.api_keys[mem.self.current_key_index + 1]

ReturnedResult == pc.caller = "idle" /\ op = "execute_with_retry" /\ ret = [val |-> "ok"]

\* C27: if at least one registered API key still has quota and requests
\* fail only with quota-exceeded errors, execute_with_retry eventually
\* returns the request's result instead of raising: from any
\* current_key_index it reaches a key with quota within len(api_keys)
\* attempts, and on return api_key is the key whose attempt succeeded.
C27_ReachesKeyWithQuota == []QuotaSafe /\ ((InCall /\ SomeKeyHasQuota) ~> ReturnedResult)

\* three keys of which only key1 has quota; the call started at key2 and
\* returned on its third attempt
C27_Witness ==
    /\ ReturnedResult
    /\ input.with_quota = {"key1"}
    /\ mem.attempted = <<"key2", "key3", "key1">>
    /\ mem.self.api_key = "key1"


ServiceInvariant ==
    LET self == mem.self
    IN /\ Len(self.api_keys) >= 1
       /\ \A i, j \in 1..Len(self.api_keys) : i # j => self.api_keys[i] # self.api_keys[j]
       /\ 0 <= self.current_key_index
       /\ self.current_key_index < Len(self.api_keys)
       /\ self.api_key = self.api_keys[self.current_key_index + 1]

\* a step of add_api_key with a key the service already holds
AddsPresentKey ==
    /\ pc.caller = "idle"
    /\ op' = "add_api_key"
    /\ "api_key" \in DOMAIN ret'
    /\ \E i \in 1..Len(mem.self.api_keys) : mem.self.api_keys[i] = ret'.api_key

\* a step of rotate_api_key on a service with a single key
RotatesSingleKey ==
    /\ pc.caller = "idle"
    /\ op' = "rotate_api_key"
    /\ "result" \in DOMAIN ret'
    /\ Len(mem.self.api_keys) = 1

\* C28: after any sequence of add_api_key, rotate_api_key and
\* execute_with_retry calls, api_keys is non-empty and holds no duplicate
\* key, 0 <= current_key_index < len(api_keys), and api_key equals
\* api_keys[current_key_index]; add_api_key of a key already present
\* changes nothing, and rotate_api_key with a single key changes nothing and
\* returns False.
C28_ServiceKeysStayConsistent ==
    /\ []ServiceInvariant
    /\ [][/\ AddsPresentKey => mem'.self = mem.self
          /\ RotatesSingleKey => (mem'.self = mem.self /\ ret'.result = FALSE)]_vars

\* three keys were added, the service rotated past the last one and a call
\* ended on key2
C28_Witness ==
    /\ pc.caller = "idle"
    /\ op = "execute_with_retry"
    /\ mem.self = [api_keys |-> <<"key1", "key3", "key2">>, current_key_index |-> 2, api_key |-> "key2"]
    /\ Len(mem.attempted) = 2


(***************************************************************************)
(* OrchestratorAgent.process (src/agents/orchestrator_agent.py), step by   *)
(* step: mem.results is the dict `results` ({} is <<>>), mem.calls the     *)
(* agents run so far, each with the data it was handed.  The agents return *)
(* a dict and never raise (each process has its own try/except); the       *)
(* analytics agent may return an error dict.                                *)
(***************************************************************************)
MaxSteps == 3       \* names in workflow_steps

StepNames == {"analytics", "content", "critique", "publish"}

\* the data of run_analytics_only, run_content_generation and
\* run_full_workflow
run_analytics_only(video_id) == [video_id |-> video_id, workflow_steps |-> <<"analytics">>]
run_content_generation(video_id) == [video_id |-> video_id, workflow_steps |-> <<"analytics", "content">>]
run_full_workflow(video_id) == [video_id |-> video_id, workflow_steps |-> <<"analytics", "content", "critique">>]

\* a variant of results.get(key, {}) that never finds the key
results_get_nothing(results, key) == <<>>

\* results.get(key, {})
results_get(results, key) == IF key \in DOMAIN results THEN results[key] ELSE <<>>

\* step in workflow_steps
Requested(step, workflow_steps) == \E i \in 1..Len(workflow_steps) : workflow_steps[i] = step

AnalyticsResults == {[video_analytics |-> "stats"], [error |-> "Could not fetch video info"]}

content_agent_process(data) == [content |-> "post", analytics_data |-> data.analytics_data]

critique_agent_process(data) == [improvements |-> "notes", content |-> data.content]

\* data.get('video_id') is "" when the key is missing or empty; a request
\* without workflow_steps gets the list of run_full_workflow
InitOrchestrator ==
    /\ input \in [video_id : {"", "vid"}, workflow_steps : UNION {[1..n -> StepNames] : n \in 0..MaxSteps}]
                    \cup {run_analytics_only("vid"), run_content_generation("vid"), run_full_workflow("vid")}
    /\ score = 0
    /\ scoreLower = 0
    /\ comments = <<>>
    /\ sponsorIn = NoSponsorIn
    /\ op = "none"
    /\ ret = NoRet
    /\ scorerCalls = 0
    /\ pc = [caller |-> "idle"]
    /\ mem = [results |-> <<>>, calls |-> <<>>]

\* process is entered: a missing video_id returns the error value
Process ==
    /\ pc.caller = "idle"
    /\ op = "none"
    /\ op' = "process"
    /\ IF input.video_id = ""
       THEN /\ ret' = [val |-> "error", error |-> "Video ID is required", context |-> "Missing video_id"]
            /\ UNCHANGED pc
       ELSE /\ ret' = ret
            /\ pc' = [caller |-> "analytics"]
    /\ UNCHANGED mem
    /\ StepUnchanged

\* Step 1: Analytics
StepAnalytics ==
    /\ pc.caller = "analytics"
    /\ IF Requested("analytics", input.workflow_steps)
       THEN \E analytics_result \in AnalyticsResults :
               mem' = [results |-> mem.results @@ ("analytics" :> analytics_result),
                       calls |-> Append(mem.calls, [agent |-> "analytics", data |-> [video_id |-> input.video_id]])]
       ELSE mem' = mem
    /\ pc' = [caller |-> "content"]
    /\ UNCHANGED <<op, ret>>
    /\ StepUnchanged

\* Step 2: Content Generation
StepContent ==
    /\ pc.caller = "content"
    /\ IF Requested("content", input.workflow_steps)
       THEN LET data == [analytics_data |-> results_get(mem.results, "analytics")]
            IN mem' = [results |-> mem.results @@ ("content" :> content_agent_process(data)),
                       calls |-> Append(mem.calls, [agent |-> "content", data |-> data])]
       ELSE mem' = mem
    /\ pc' = [caller |-> "critique"]
    /\ UNCHANGED <<op, ret>>
    /\ StepUnchanged

\* Step 3: Critique and Improvement
StepCritique ==
    /\ pc.caller = "critique"
    /\ IF Requested("critique", input.workflow_steps)
       THEN LET data == [content |-> results_get(mem.results, "content")]
            IN mem' = [results |-> mem.results @@ ("critique" :> critique_agent_process(data)),
                       calls |-> Append(mem.calls, [agent |-> "critique", data |-> data])]
       ELSE mem' = mem
    /\ pc' = [caller |-> "summary"]
    /\ UNCHANGED <<op, ret>>
    /\ StepUnchanged

\* the summary is generated and the result returned
ReturnWorkflow ==
    /\ pc.caller = "summary"
    /\ ret' = [val |-> "ok", workflow_steps |-> input.workflow_steps, results |-> mem.results, workflow_completed |-> TRUE]
    /\ pc' = [caller |-> "idle"]
    /\ UNCHANGED <<op, mem>>
    /\ StepUnchanged

NextOrchestrator == Process \/ StepAnalytics \/ StepContent \/ StepCritique \/ ReturnWorkflow

SpecOrchestrator == InitOrchestrator /\ [][NextOrchestrator]_vars

AgentOrder(agent) == CASE agent = "analytics" -> 1 [] agent = "content" -> 2 [] agent = "critique" -> 3

RequestedAgents == {step \in {"analytics", "content", "critique"} : Requested(step, input.workflow_steps)}

CallsOf(agent) == {i \in 1..Len(mem.calls) : mem.calls[i].agent = agent}

\* C29: process runs the requested steps in the fixed order analytics,
\* content, critique, whatever the order of names in workflow_steps, and
\* runs only requested steps; the content step receives the analytics
\* result of this run (or an empty mapping when analytics was not
\* requested), the critique step receives the content result of this run
\* (or an empty mapping), the keys of results are exactly the requested
\* steps among the three, and when video_id is missing an error value is
\* returned and no agent is run.
C29_WorkflowOrder ==
    /\ \A i, j \in 1..Len(mem.calls) : i < j => AgentOrder(mem.calls[i].agent) < AgentOrder(mem.calls[j].agent)
    /\ \A i \in 1..Len(mem.calls) : mem.calls[i].agent \in RequestedAgents
    /\ \A i \in CallsOf("content") :
          mem.calls[i].data.analytics_data = IF "analytics" \in RequestedAgents THEN mem.results["analytics"] ELSE <<>>
    /\ \A i \in CallsOf("critique") :
          mem.calls[i].data.content = IF "content" \in RequestedAgents THEN mem.results["content"] ELSE <<>>
    /\ (op = "process" /\ pc.caller = "idle" /\ input.video_id # "") =>
          /\ ret.val = "ok"
          /\ DOMAIN ret.results = RequestedAgents
          /\ {mem.calls[i].agent : i \in 1..Len(mem.calls)} = RequestedAgents
    /\ (op = "process" /\ input.video_id = "") =>
          /\ ret.val = "error"
          /\ mem.calls = <<>>

\* workflow_steps named critique, content, analytics in that order and the
\* three agents ran in the fixed order, each on the result of the one before
C29_Witness ==
    /\ op = "process"
    /\ pc.caller = "idle"
    /\ input.workflow_steps = <<"critique", "content", "analytics">>
    /\ Len(mem.calls) = 3
    /\ mem.calls[3].data.content = mem.results["content"]
    /\ mem.results["content"].analytics_data = mem.results["analytics"]


(***************************************************************************)
(* The paging loop of EnhancedYouTubeService.get_comments.  The video has  *)
(* a list of comment threads, each with the replies the API sends along;   *)
(* a request for maxResults threads is answered with the next threads, at  *)
(* most maxResults of them, and with a nextPageToken when threads remain.  *)
(* The request number fail_at raises (0: none does).  A record is          *)
(* [thread, reply]: reply is 0 for the top-level comment.                  *)
(***************************************************************************)
MaxResults == 3     \* max_results of a call
MaxThreads == 3     \* comment threads of a video
MaxReplies == 2     \* replies sent along with a thread
PageLimit == 2      \* the 100 of min(100, max_results - len(comments)), scaled

\* the records of the threads first..last of the video
RECURSIVE PageRecords(_, _, _)
PageRecords(threads, first, last) ==
    IF first > last THEN <<>>
    ELSE <<[thread |-> first, reply |-> 0]>>
             \o [r \in 1..threads[first] |-> [thread |-> first, reply |-> r]]
             \o PageRecords(threads, first + 1, last)

\* the while loop, from the request number page on; fetched is the number
\* of threads the earlier pages held
RECURSIVE get_comments_pages(_, _, _, _, _, _)
get_comments_pages(threads, max_results, fail_at, collected, fetched, page) ==
    IF ~(Len(collected) < max_results) THEN [comments |-> collected, requests |-> page - 1]
    ELSE IF page = fail_at THEN [comments |-> collected, requests |-> page]
    ELSE LET maxResults == Least({PageLimit, max_results - Len(collected)})
             last == Least({fetched + maxResults, Len(threads)})
             records == collected \o PageRecords(threads, fetched + 1, last)
             next_page_token == last < Len(threads)
         IN IF ~next_page_token THEN [comments |-> records, requests |-> page]
            ELSE get_comments_pages(threads, max_results, fail_at, records, last, page + 1)

InitPaging ==
    /\ input \in [max_results : 1..MaxResults,
                  threads : UNION {[1..n -> 0..MaxReplies] : n \in 0..MaxThreads},
                  fail_at : 0..2]
    /\ score = 0
    /\ scoreLower = 0
    /\ comments = <<>>
    /\ sponsorIn = NoSponsorIn
    /\ op = "none"
    /\ ret = NoRet
    /\ scorerCalls = 0
    /\ NoSteps

GetCommentsPages ==
    /\ op = "none"
    /\ op' = "get_comments"
    /\ ret' = [val |-> "ok", result |-> get_comments_pages(input.threads, input.max_results, input.fail_at, <<>>, 0, 1)]
    /\ scorerCalls' = 0
    /\ InputsUnchanged

NextPaging == GetCommentsPages

SpecPaging == InitPaging /\ [][NextPaging]_vars

\* C30: get_comments(video_id, max_results) returns at most max_results
\* comment records for every sequence of API pages, counting top-level
\* comments and their replies together; an API error in the middle of
\* paging returns the records collected so far without raising.
C30_AtMostMaxResults ==
    op = "get_comments" =>
        /\ ret.val = "ok"
        /\ Len(ret.result.comments) <= input.max_results

\* what holds of the code: the top-level comments alone stay within
\* max_results, the records are a prefix of the video's records, and no
\* request is made once max_results records are held
PagingWithinThreads ==
    op = "get_comments" =>
        LET records == ret.result.comments
            all == PageRecords(input.threads, 1, Len(input.threads))
        IN /\ ret.val = "ok"
           /\ Cardinality({i \in 1..Len(records) : records[i].reply = 0}) <= input.max_results
           /\ Len(records) <= Len(all)
           /\ records = SubSeq(all, 1, Len(records))
           /\ ret.result.requests <= input.max_results

====
